---- MODULE Spec2Model ----
(***************************************************************************)
(* Model of the ELF parser of stm32cubemonitor-elfparser (src/index.ts and *)
(* src/gdbInfoDecoder.ts): the ElfParser controller that drives a gdb      *)
(* subprocess, the framing of the subprocess output, and the decoders of   *)
(* gdb's textual replies.                                                  *)
(*                                                                         *)
(* Text is modelled as a sequence of one-character strings, indexed from 0 *)
(* by the JavaScript-like operators below, so that slicing, searching and  *)
(* framing are computed as the code computes them.  An optional field      *)
(* (undefined in the code) is a sequence of length at most one: None is    *)
(* undefined and Some(v) is the value v.                                   *)
(***************************************************************************)
EXTENDS Integers, Sequences, FiniteSets, TLC

None == <<>>

Some(v) == <<v>>

IsSome(o) == Len(o) = 1

Val(o) == o[1]

Min(a, b) == IF a < b THEN a ELSE b

Max(a, b) == IF a < b THEN b ELSE a

Last(s) == s[Len(s)]

(***************************************************************************)
(* JavaScript String operations, on sequences of characters, 0-indexed.    *)
(***************************************************************************)
Clamp(i, s) == Max(0, Min(i, Len(s)))

\* String.prototype.substring(a, b): clamps both, swaps when a > b
Substring(s, a, b) ==
  LET lo == Min(Clamp(a, s), Clamp(b, s))
      hi == Max(Clamp(a, s), Clamp(b, s))
  IN  SubSeq(s, lo + 1, hi)

\* String.prototype.substring(a) and slice(a) for a >= 0
SubstringFrom(s, a) == Substring(s, a, Len(s))

\* does pat occur in s at 0-based index i
MatchAt(s, pat, i) ==
  /\ i >= 0
  /\ i + Len(pat) <= Len(s)
  /\ SubSeq(s, i + 1, i + Len(pat)) = pat

RECURSIVE IndexOfFrom(_, _, _)
\* String.prototype.indexOf(pat, from): first index >= from, or -1
IndexOfFrom(s, pat, from) ==
  LET i == Clamp(from, s)
  IN  IF i + Len(pat) > Len(s) THEN -1
      ELSE IF MatchAt(s, pat, i) THEN i
      ELSE IndexOfFrom(s, pat, i + 1)

IndexOf(s, pat) == IndexOfFrom(s, pat, 0)

RECURSIVE LastIndexOfFrom(_, _, _)
\* String.prototype.lastIndexOf(pat, from): last index <= from, or -1
LastIndexOfFrom(s, pat, from) ==
  LET i == Min(from, Len(s) - Len(pat))
  IN  IF i < 0 THEN -1
      ELSE IF MatchAt(s, pat, i) THEN i
      ELSE LastIndexOfFrom(s, pat, i - 1)

LastIndexOf(s, pat) == LastIndexOfFrom(s, pat, Len(s))

Includes(s, pat) == IndexOf(s, pat) # -1

StartsWith(s, pat) == MatchAt(s, pat, 0)

\* the white space of String.prototype.trim and of the regular expressions' \s
WhiteSpace == {" ", "\n", "\t", "\r"}

Digits == <<"0","1","2","3","4","5","6","7","8","9">>

IsDigit(c) == \E d \in 1..10 : Digits[d] = c

DigitValue(c) == (CHOOSE d \in 1..10 : Digits[d] = c) - 1

RECURSIVE TrimStart(_)
TrimStart(s) ==
  IF s # <<>> /\ Head(s) \in WhiteSpace THEN TrimStart(Tail(s)) ELSE s

RECURSIVE TrimEnd(_)
TrimEnd(s) ==
  IF s # <<>> /\ Last(s) \in WhiteSpace THEN TrimEnd(SubSeq(s, 1, Len(s) - 1)) ELSE s

\* String.prototype.trim
Trim(s) == TrimEnd(TrimStart(s))

RECURSIVE ReplaceAll(_, _, _)
\* String.prototype.replace(/pat/g, by) for a literal pattern
ReplaceAll(s, pat, by) ==
  LET i == IndexOf(s, pat)
  IN  IF i = -1 THEN s
      ELSE Substring(s, 0, i) \o by \o ReplaceAll(SubstringFrom(s, i + Len(pat)), pat, by)

(***************************************************************************)
(* JavaScript numbers as far as the code uses them: a number is NaN,       *)
(* Infinity or an integer.                                                 *)
(***************************************************************************)
NaN == [nan |-> TRUE, inf |-> FALSE, val |-> 0]

Infinity == [nan |-> FALSE, inf |-> TRUE, val |-> 0]

Num(n) == [nan |-> FALSE, inf |-> FALSE, val |-> n]

RECURSIVE DigitsValue(_, _)
\* the value of the longest prefix of decimal digits of s, after acc
DigitsValue(s, acc) ==
  IF s # <<>> /\ IsDigit(Head(s))
  THEN DigitsValue(Tail(s), acc * 10 + DigitValue(Head(s)))
  ELSE acc

\* parseInt(s, 10): leading white space, an optional sign, leading digits
ParseInt(s) ==
  LET t    == TrimStart(s)
      neg  == t # <<>> /\ Head(t) = "-"
      body == IF t # <<>> /\ Head(t) \in {"-", "+"} THEN Tail(t) ELSE t
  IN  IF body = <<>> \/ ~IsDigit(Head(body)) THEN NaN
      ELSE Num(IF neg THEN 0 - DigitsValue(body, 0) ELSE DigitsValue(body, 0))

RECURSIVE NatToString(_)
NatToString(n) ==
  IF n < 10 THEN <<Digits[n + 1]>>
  ELSE NatToString(n \div 10) \o <<Digits[(n % 10) + 1]>>

\* string concatenation of a number: "" + n
NumToString(x) ==
  IF x.nan THEN <<"N","a","N">>
  ELSE IF x.inf THEN <<"I","n","f","i","n","i","t","y">>
  ELSE IF x.val < 0 THEN <<"-">> \o NatToString(0 - x.val)
  ELSE NatToString(x.val)

(***************************************************************************)
(* gdbInfoDecoder.ts                                                       *)
(***************************************************************************)
\* enum TYPE_VALUE
TYPE_VALUE ==
  [UNSIGNED_8 |-> 1, SIGNED_8 |-> 2, UNSIGNED_16 |-> 3, SIGNED_16 |-> 4,
   UNSIGNED_32 |-> 5, SIGNED_32 |-> 6, UNSIGNED_64 |-> 7, SIGNED_64 |-> 8,
   FLOAT |-> 9, DOUBLE |-> 10]

\* the value computeTypeValue returns for an unexpected expression
TYPE_UNKNOWN == -1

\* an element of IGdbVariableInfo.identifiersList that has only its identifier
NewElement(id) ==
  [identifier |-> id, type |-> None, typeValue |-> None, address |-> None,
   classHierarchy |-> None]

\* checkClassRecursion: the class name occurs in the hierarchy text
checkClassRecursion(classHierarchy, className) ==
  IndexOf(classHierarchy, className) # -1

RECURSIVE MatchingLoop(_, _, _, _)
\* the while loop of getMatchingClosingBrace
MatchingLoop(block, nbOpen, nextOpen, nextClose) ==
  IF nbOpen = 0 THEN nextClose
  ELSE IF nextClose = -1 THEN -1
  ELSE LET nested == nextOpen # -1 /\ nextOpen < nextClose
           open1  == IF nested THEN nbOpen + 1 ELSE nbOpen
           nOpen1 == IF nested THEN IndexOfFrom(block, <<"{">>, nextOpen + 1) ELSE nextOpen
           open2  == open1 - 1
           close2 == IF open2 > 0 THEN IndexOfFrom(block, <<"}">>, nextClose + 1)
                     ELSE nextClose
       IN  MatchingLoop(block, open2, nOpen1, close2)

\* a variant of getMatchingClosingBrace that takes the first closing brace
\* after the first open one, without counting the nested blocks: C35 tells it
\* from getMatchingClosingBrace
getFirstClosingBrace(block) ==
  IF IndexOf(block, <<"{">>) = -1 THEN 0
  ELSE IndexOfFrom(block, <<"}">>, IndexOf(block, <<"{">>) + 1)

\* getMatchingClosingBrace: 0 without an open brace, -1 without a match
getMatchingClosingBrace(block) ==
  LET firstOpenBrace == IndexOf(block, <<"{">>)
  IN  IF firstOpenBrace = -1 THEN 0
      ELSE MatchingLoop(block, 1,
                        IndexOfFrom(block, <<"{">>, firstOpenBrace + 1),
                        IndexOfFrom(block, <<"}">>, firstOpenBrace + 1))

AccessKeywords ==
  {<<"p","u","b","l","i","c",":">>,
   <<"p","r","i","v","a","t","e",":">>,
   <<"p","r","o","t","e","c","t","e","d",":">>}

\* the first index at which one of the access keywords occurs, or -1
FirstAccessKeyword(s) ==
  LET hits == {IndexOf(s, k) : k \in AccessKeywords} \ {-1}
  IN  IF hits = {} THEN -1 ELSE CHOOSE i \in hits : \A j \in hits : i <= j

RECURSIVE SkipSpaceBack(_, _)
\* the start of the white space that ends right before index i
SkipSpaceBack(s, i) ==
  IF i > 0 /\ s[i] \in WhiteSpace THEN SkipSpaceBack(s, i - 1) ELSE i

RECURSIVE RemoveAccessKeywords(_)
\* expr.replace(/\s*(public:|private:|protected:)/g, "")
RemoveAccessKeywords(s) ==
  LET i == FirstAccessKeyword(s)
      k == CHOOSE w \in AccessKeywords : MatchAt(s, w, i)
  IN  IF i = -1 THEN s
      ELSE Substring(s, 0, SkipSpaceBack(s, i))
             \o RemoveAccessKeywords(SubstringFrom(s, i + Len(k)))

RECURSIVE DigitRunEnd(_, _)
\* the index after the run of digits that starts at index i
DigitRunEnd(s, i) ==
  IF i < Len(s) /\ IsDigit(s[i + 1]) THEN DigitRunEnd(s, i + 1) ELSE i

RECURSIVE RemoveLineNumberFrom(_, _)
\* tmpStr.replace(/\d+:/, ""): the first run of digits followed by a colon
RemoveLineNumberFrom(s, i) ==
  IF i >= Len(s) THEN s
  ELSE IF ~IsDigit(s[i + 1]) THEN RemoveLineNumberFrom(s, i + 1)
  ELSE LET e == DigitRunEnd(s, i)
       IN  IF e < Len(s) /\ s[e + 1] = ":"
           THEN Substring(s, 0, i) \o SubstringFrom(s, e + 1)
           ELSE RemoveLineNumberFrom(s, e)

RemoveLineNumber(s) == RemoveLineNumberFrom(s, 0)

\* extractIdentifiers, lines 271-329: the identifiers of the declarator tmpStr,
\* which is without access keywords, line number and surrounding white space
IdentifiersOf(tmpStr, rootIdentifier, bExpandTableElements) ==
  LET AfterLast(text, mark) ==
        IF LastIndexOf(text, mark) # -1
        THEN Trim(SubstringFrom(text, LastIndexOf(text, mark) + 1))
        ELSE text
      AfterStar(text) == Trim(SubstringFrom(text, LastIndexOf(text, <<"*">>) + 1))
      LastIdx(size) == IF size.nan THEN NaN ELSE Num(size.val - 1)
      tblStartIdx  == IndexOf(tmpStr, <<"[">>)
      tblName      == AfterLast(Trim(Substring(tmpStr,
                                               LastIndexOfFrom(tmpStr, <<" ">>, tblStartIdx) + 1,
                                               tblStartIdx)),
                                <<"*">>)
      lastTableIdx == LastIdx(ParseInt(Substring(tmpStr, tblStartIdx + 1,
                                                 IndexOfFrom(tmpStr, <<"]">>, tblStartIdx))))
      endIdx       == IndexOf(tmpStr, <<")">>)
  IN  IF tblStartIdx # -1
      THEN IF IndexOf(SubstringFrom(tmpStr, tblStartIdx + 1), <<"[">>) # -1
           THEN << <<>> >>
           ELSE IF bExpandTableElements
                THEN <<rootIdentifier \o tblName \o <<"[">> \o NumToString(lastTableIdx) \o <<"]">> >>
                ELSE <<rootIdentifier \o tblName \o <<"[","0","]">> >>
      ELSE IF LastIndexOf(tmpStr, <<"*">>) # -1
           THEN <<rootIdentifier \o
                    AfterLast(AfterStar(IF endIdx # -1 THEN Substring(tmpStr, 0, endIdx)
                                        ELSE tmpStr),
                              <<" ">>)>>
      ELSE IF IndexOf(tmpStr, <<" ",":"," ">>) # -1
           THEN << <<>> >>
      ELSE <<rootIdentifier \o Trim(SubstringFrom(tmpStr, LastIndexOf(tmpStr, <<" ">>) + 1))>>

\* a variant of extractIdentifiers that names the last element of an array
\* whether or not the arrays are expanded: C13 tells it from extractIdentifiers
extractIdentifiersOfLast(expr, rootIdentifier, bExpandTableElements) ==
  IdentifiersOf(Trim(RemoveLineNumber(RemoveAccessKeywords(expr))), rootIdentifier, TRUE)

\* extractIdentifiers: the identifiers (one, possibly empty) of a declarator
extractIdentifiers(expr, rootIdentifier, bExpandTableElements) ==
  IdentifiersOf(Trim(RemoveLineNumber(RemoveAccessKeywords(expr))), rootIdentifier,
                bExpandTableElements)

RECURSIVE BuildVarListFrom(_, _, _, _, _)
\* a variant of BuildVarListNext that returns at the first declaration
\* extractIdentifiers gives no identifier for: C34 tells it from
\* BuildVarListNext
BuildVarListNextOrStop(fileBlock, startIdx, rootIdentifier, expandTableElements, variablesList, closeBraceIdx) ==
  LET tmpStr == SubstringFrom(fileBlock, startIdx)
      endIdx == IndexOfFrom(tmpStr, <<";">>, closeBraceIdx)
      identifiers == extractIdentifiers(
                       IF closeBraceIdx # 0
                       THEN Substring(tmpStr, 0, IndexOf(tmpStr, <<"{">>))
                              \o Substring(tmpStr, closeBraceIdx + 1, endIdx)
                       ELSE Substring(tmpStr, 0, endIdx),
                       rootIdentifier, expandTableElements)
  IN  IF closeBraceIdx = -1 THEN variablesList
      ELSE IF endIdx = -1 THEN variablesList
      ELSE IF identifiers[1] = <<>> THEN variablesList
      ELSE BuildVarListFrom(
             fileBlock, startIdx + endIdx + 1, rootIdentifier, expandTableElements,
             variablesList \o [k \in 1..Len(identifiers) |-> [identifier |-> identifiers[k]]])

\* one turn of the while loop of buildVarList: the declaration at startIdx,
\* closeBraceIdx the brace that closes its block (0 without a block)
BuildVarListNext(fileBlock, startIdx, rootIdentifier, expandTableElements, variablesList, closeBraceIdx) ==
  LET tmpStr == SubstringFrom(fileBlock, startIdx)
      endIdx == IndexOfFrom(tmpStr, <<";">>, closeBraceIdx)
      Added(identifiers) ==
        IF identifiers[1] # <<>>
        THEN [k \in 1..Len(identifiers) |-> [identifier |-> identifiers[k]]]
        ELSE <<>>
  IN  IF closeBraceIdx = -1 THEN variablesList
      ELSE IF endIdx = -1 THEN variablesList
      ELSE BuildVarListFrom(
             fileBlock, startIdx + endIdx + 1, rootIdentifier, expandTableElements,
             variablesList \o
               Added(extractIdentifiers(
                       IF closeBraceIdx # 0
                       THEN Substring(tmpStr, 0, IndexOf(tmpStr, <<"{">>))
                              \o Substring(tmpStr, closeBraceIdx + 1, endIdx)
                       ELSE Substring(tmpStr, 0, endIdx),
                       rootIdentifier, expandTableElements)))

\* the while loop of buildVarList, from startIdx with the list built so far
BuildVarListFrom(fileBlock, startIdx, rootIdentifier, expandTableElements, variablesList) ==
  LET tmpStr         == SubstringFrom(fileBlock, startIdx)
      firstSemiColon == IndexOf(tmpStr, <<";">>)
      firstOpenBrace == IndexOf(tmpStr, <<"{">>)
  IN  IF startIdx >= Len(fileBlock) THEN variablesList
      ELSE BuildVarListNext(fileBlock, startIdx, rootIdentifier, expandTableElements,
                            variablesList,
                            IF firstOpenBrace # -1 /\ firstOpenBrace < firstSemiColon
                            THEN getMatchingClosingBrace(tmpStr) ELSE 0)

\* buildVarList: the identifiers of a block of declarations separated by ';'
buildVarList(fileBlock, rootIdentifier, expandTableElements) ==
  BuildVarListFrom(fileBlock, 0, rootIdentifier, expandTableElements, <<>>)

FILE_MARKER_START == <<"F","i","l","e"," ">>

\* ":" + os.EOL
FILE_MARKER_END == <<":","\n">>

NON_DEBUG_MARKER == <<"N","o","n","-","d","e","b","u","g","g","i","n","g"," ","s","y","m","b","o","l","s",":">>

\* the elements of a list of identifiers: only the identifier is defined
NewElements(variablesList) ==
  [k \in 1..Len(variablesList) |-> NewElement(variablesList[k].identifier)]

RECURSIVE ParseFileBlocks(_, _, _, _)
\* the while loop of parseGdbVariablesInfo, from fileBlockStart; the loop ends
\* (fileBlockStart -1) when there is no further file marker
ParseFileBlocks(data, expandTableElements, fileBlockStart, gdbVariablesInfo) ==
  LET nextFile       == IndexOfFrom(data, FILE_MARKER_START, fileBlockStart + 1)
      nonDebug       == IndexOfFrom(data, NON_DEBUG_MARKER, fileBlockStart + 1)
      fileBlockEnd   == IF nextFile # -1 THEN nextFile
                        ELSE IF nonDebug # -1 THEN nonDebug
                        ELSE Len(data) - 1
      endFilenameIdx == IndexOfFrom(data, FILE_MARKER_END, fileBlockStart)
  IN  IF fileBlockStart = -1 THEN gdbVariablesInfo
      ELSE IF endFilenameIdx = -1 THEN <<>>
      ELSE ParseFileBlocks(
             data, expandTableElements, nextFile,
             Append(gdbVariablesInfo,
                    [filename |-> Substring(data, fileBlockStart + Len(FILE_MARKER_START),
                                            endFilenameIdx),
                     identifiersList |->
                       NewElements(buildVarList(
                         Substring(data, endFilenameIdx + Len(FILE_MARKER_END), fileBlockEnd),
                         <<>>, expandTableElements))]))

\* parseGdbVariablesInfo: the file groups of the reply to "info variables"
parseGdbVariablesInfo(data, expandTableElements) ==
  ParseFileBlocks(data, expandTableElements, IndexOf(data, FILE_MARKER_START), <<>>)

RECURSIVE MarkersPass(_, _)
\* one turn of the while loop of removeStorageClassSpecifier and of
\* removeScopeClassSpecifier: the tests of the markers, in order
MarkersPass(tmpStr, markers) ==
  IF markers = <<>> THEN tmpStr
  ELSE MarkersPass(IF StartsWith(tmpStr, Head(markers))
                   THEN SubstringFrom(tmpStr, Len(Head(markers)))
                   ELSE tmpStr,
                   Tail(markers))

RECURSIVE RemoveMarkers(_, _)
\* the while loop: turns are repeated while one of them found a marker
RemoveMarkers(tmpStr, markers) ==
  IF MarkersPass(tmpStr, markers) = tmpStr THEN tmpStr
  ELSE RemoveMarkers(MarkersPass(tmpStr, markers), markers)

\* removeStorageClassSpecifier
removeStorageClassSpecifier(expr) ==
  RemoveMarkers(expr, <<<<"e","x","t","e","r","n"," ">>, <<"s","t","a","t","i","c"," ">>, <<"v","o","l","a","t","i","l","e"," ">>, <<"c","o","n","s","t"," ">>>>)

\* removeScopeClassSpecifier
removeScopeClassSpecifier(expr) ==
  RemoveMarkers(expr, <<<<"p","u","b","l","i","c"," ">>, <<"p","r","o","t","e","c","t","e","d"," ">>, <<"p","r","i","v","a","t","e"," ">>>>)

(***************************************************************************)
(* regexInherit = /\s*([^<\[,]+)((<.*?>)?\s*(\[.*?\])?\s*($|,))/gs, matched *)
(* as a backtracking matcher does: greedy parts from the longest choice    *)
(* down, lazy parts from the shortest up, the first success wins.  A       *)
(* failed match is the end -1.                                             *)
(***************************************************************************)
CharAt(s, i) == IF i >= 0 /\ i < Len(s) THEN s[i + 1] ELSE ""

RECURSIVE SpaceRunEnd(_, _)
SpaceRunEnd(s, i) ==
  IF CharAt(s, i) \in WhiteSpace THEN SpaceRunEnd(s, i + 1) ELSE i

RECURSIVE NameRunEnd(_, _)
\* the end of the longest run of [^<\[,] from index i
NameRunEnd(s, i) ==
  IF i < Len(s) /\ CharAt(s, i) \notin {"<", "[", ","} THEN NameRunEnd(s, i + 1) ELSE i

RECURSIVE InheritEnd(_, _, _)
\* \s*($|,) from index r, the white space ending at e or before
InheritEnd(s, r, e) ==
  IF e < r THEN -1
  ELSE IF e = Len(s) THEN e
  ELSE IF CharAt(s, e) = "," THEN e + 1
  ELSE InheritEnd(s, r, e - 1)

\* the first alternative of a backtracking matcher unless it failed
Backtrack(first, second, failed) == IF first # failed THEN first ELSE second

RECURSIVE InheritBracket(_, _)
\* .*?\]\s*($|,) with the closing bracket at index q or after
InheritBracket(s, q) ==
  LET close == IndexOfFrom(s, <<"]">>, q)
  IN  IF close = -1 \/ q > Len(s) THEN -1
      ELSE Backtrack(InheritEnd(s, close + 1, SpaceRunEnd(s, close + 1)),
                     InheritBracket(s, close + 1), -1)

RECURSIVE InheritArray(_, _, _)
\* \s*(\[.*?\])?\s*($|,) from index r, the white space ending at e or before
InheritArray(s, r, e) ==
  IF e < r THEN -1
  ELSE Backtrack(IF CharAt(s, e) = "[" THEN InheritBracket(s, e + 1) ELSE -1,
                 Backtrack(InheritEnd(s, e, SpaceRunEnd(s, e)),
                           InheritArray(s, r, e - 1), -1),
                 -1)

RECURSIVE InheritAngle(_, _)
\* .*?>\s*(\[.*?\])?\s*($|,) with the closing angle at index q or after
InheritAngle(s, q) ==
  LET close == IndexOfFrom(s, <<">">>, q)
  IN  IF close = -1 \/ q > Len(s) THEN -1
      ELSE Backtrack(InheritArray(s, close + 1, SpaceRunEnd(s, close + 1)),
                     InheritAngle(s, close + 1), -1)

\* (<.*?>)?\s*(\[.*?\])?\s*($|,) from index r
InheritTail(s, r) ==
  Backtrack(IF CharAt(s, r) = "<" THEN InheritAngle(s, r + 1) ELSE -1,
            InheritArray(s, r, SpaceRunEnd(s, r)), -1)

\* a failed match of regexInherit
NoMatch == [end |-> -1, name |-> <<>>]

RECURSIVE InheritName(_, _, _)
\* ([^<\[,]+) from index g with e its end or before, then the tail
InheritName(s, g, e) ==
  IF e <= g THEN NoMatch
  ELSE Backtrack([end |-> InheritTail(s, e),
                  name |-> IF InheritTail(s, e) = -1 THEN <<>> ELSE Substring(s, g, e)],
                 InheritName(s, g, e - 1), NoMatch)

RECURSIVE InheritAt(_, _, _)
\* a match that starts at index i, its leading white space ending at g or before
InheritAt(s, i, g) ==
  IF g < i THEN NoMatch
  ELSE Backtrack(InheritName(s, g, NameRunEnd(s, g)), InheritAt(s, i, g - 1), NoMatch)

RECURSIVE InheritExec(_, _)
\* regexInherit.exec with lastIndex i: the first match starting at i or after
InheritExec(s, i) ==
  IF i > Len(s) THEN NoMatch
  ELSE Backtrack(InheritAt(s, i, SpaceRunEnd(s, i)), InheritExec(s, i + 1), NoMatch)

RECURSIVE MatchNames(_, _)
\* baseClassArray[1] of every match of the exec loop, m the first of them
MatchNames(s, m) ==
  IF m.end = -1 THEN <<>> ELSE <<m.name>> \o MatchNames(s, InheritExec(s, m.end))

\* the names the loop on regexInherit.exec finds in the text of the base classes
InheritNames(s) == MatchNames(s, InheritExec(s, 0))

\* the index of the first file group named filename, or 0
FileIndex(info, filename) ==
  IF \E k \in 1..Len(info) : info[k].filename = filename
  THEN CHOOSE k \in 1..Len(info) :
         /\ info[k].filename = filename
         /\ \A j \in 1..(k - 1) : info[j].filename # filename
  ELSE 0

\* the index of the last element named identifier, or 0 (indexRootIdentifier)
LastNamed(list, identifier) ==
  IF \E k \in 1..Len(list) : list[k].identifier = identifier
  THEN CHOOSE k \in 1..Len(list) :
         /\ list[k].identifier = identifier
         /\ \A j \in (k + 1)..Len(list) : list[j].identifier # identifier
  ELSE 0

\* Array.prototype.splice(k, 1), k counted from 1
RemoveAt(list, k) == SubSeq(list, 1, k - 1) \o SubSeq(list, k + 1, Len(list))

\* extractType, lines 409-426: remove the line containing rootIdentifier
RemoveRootIdentifier(variablesInfo, filename, rootIdentifier) ==
  LET f == FileIndex(variablesInfo, filename)
      k == LastNamed(variablesInfo[f].identifiersList, rootIdentifier)
  IN  IF f = 0 \/ k = 0 THEN variablesInfo
      ELSE [variablesInfo EXCEPT ![f].identifiersList = RemoveAt(@, k)]

\* extractType, lines 428-468: add the new elements to the group of filename
AddNewElements(newVariablesInfo, filename, elements) ==
  LET f == FileIndex(newVariablesInfo, filename)
  IN  IF f = 0
      THEN Append(newVariablesInfo, [filename |-> filename, identifiersList |-> elements])
      ELSE [newVariablesInfo EXCEPT ![f].identifiersList = @ \o elements]

\* extractType, lines 377-477, for the type tmpStr of a struct, a union or a
\* class, without storage class: the type returned, and the two collections
\* as it leaves them
ExpandType(variablesInfo, newVariablesInfo, filename, tmpStr, rootIdentifier, rootHierarchy, bExpandTableElements) ==
  LET isClass   == StartsWith(tmpStr, <<"c","l","a","s","s"," ">>)
      firstOpenBrace == IndexOf(tmpStr, <<"{">>)
      firstColonLeadingSpace == IndexOf(tmpStr, <<" ",":"," ">>)
      \* rootHierarchy || ""
      rootH     == IF IsSome(rootHierarchy) THEN Val(rootHierarchy) ELSE <<>>
      className == Trim(Substring(tmpStr, 5,
                                  IF firstColonLeadingSpace = -1 THEN firstOpenBrace
                                  ELSE firstColonLeadingSpace))
      hierarchy == IF isClass THEN rootH \o <<".">> \o className ELSE <<>>
      closeBraceIdx == getMatchingClosingBrace(tmpStr)
      Members(variablesList) ==
        [k \in 1..Len(variablesList) |->
           [NewElement(variablesList[k].identifier) EXCEPT !.classHierarchy = Some(hierarchy)]]
      Bases(baseNames) ==
        [k \in 1..Len(baseNames) |->
           [NewElement(rootIdentifier)
              EXCEPT !.type = Some(<<"?">> \o Trim(removeScopeClassSpecifier(Trim(baseNames[k]))))]]
      same      == [type |-> tmpStr, variablesInfo |-> variablesInfo,
                    newVariablesInfo |-> newVariablesInfo]
      failed    == [same EXCEPT !.type = <<>>]
  IN  IF firstOpenBrace = -1 THEN failed
      ELSE IF isClass /\ checkClassRecursion(rootH, className) THEN failed
      ELSE IF closeBraceIdx = -1 THEN failed
      ELSE IF IndexOfFrom(tmpStr, <<"*">>, closeBraceIdx + 1) # -1 THEN same
      ELSE [type |-> <<>>,
            variablesInfo |-> RemoveRootIdentifier(variablesInfo, filename, rootIdentifier),
            newVariablesInfo |->
              AddNewElements(
                newVariablesInfo, filename,
                Members(buildVarList(Substring(tmpStr, firstOpenBrace + 1, closeBraceIdx),
                                     rootIdentifier \o <<".">>, bExpandTableElements))
                  \o Bases(IF isClass /\ firstColonLeadingSpace # -1
                           THEN InheritNames(Substring(tmpStr, firstColonLeadingSpace + 2,
                                                       firstOpenBrace))
                           ELSE <<>>))]

\* extractType, lines 370-377 and 475-476, for the type tmpStr without
\* surrounding white space and storage class
TypeOf(variablesInfo, newVariablesInfo, filename, tmpStr, rootIdentifier, rootHierarchy, bExpandTableElements) ==
  IF StartsWith(tmpStr, <<"s","t","r","u","c","t"," ">>) \/ StartsWith(tmpStr, <<"u","n","i","o","n"," ">>) \/ StartsWith(tmpStr, <<"c","l","a","s","s"," ">>)
  THEN ExpandType(variablesInfo, newVariablesInfo, filename, tmpStr, rootIdentifier,
                  rootHierarchy, bExpandTableElements)
  ELSE [type |-> tmpStr, variablesInfo |-> variablesInfo,
        newVariablesInfo |-> newVariablesInfo]

\* extractType: the type returned, and the two collections as it leaves them
extractType(variablesInfo, newVariablesInfo, filename, expr, rootIdentifier, rootHierarchy, bExpandTableElements) ==
  TypeOf(variablesInfo, newVariablesInfo, filename, removeStorageClassSpecifier(Trim(expr)),
         rootIdentifier, rootHierarchy, bExpandTableElements)

\* computeTypeValue, lines 500-625, for the type tmpStr without surrounding
\* white space and storage class, and the size tmpSize
TypeValueOf(tmpStr, tmpSize) ==
  IF LastIndexOf(tmpStr, <<"*">>) # -1
  THEN IF tmpSize = <<"4">> THEN TYPE_VALUE.UNSIGNED_32
       ELSE IF tmpSize = <<"1">> THEN TYPE_VALUE.UNSIGNED_8
       ELSE TYPE_VALUE.UNSIGNED_16
  ELSE IF StartsWith(tmpStr, <<"e","n","u","m">>)
  THEN IF tmpSize = <<"1">> THEN TYPE_VALUE.SIGNED_8 ELSE TYPE_VALUE.SIGNED_16
  ELSE IF tmpStr \in {<<"u","n","s","i","g","n","e","d"," ","c","h","a","r">>, <<"_","B","o","o","l">>} THEN TYPE_VALUE.UNSIGNED_8
  ELSE IF tmpStr \in {<<"c","h","a","r">>, <<"s","i","g","n","e","d"," ","c","h","a","r">>} THEN TYPE_VALUE.SIGNED_8
  ELSE IF tmpStr \in {<<"u","n","s","i","g","n","e","d"," ","s","h","o","r","t">>, <<"u","n","s","i","g","n","e","d"," ","s","h","o","r","t"," ","i","n","t">>, <<"s","h","o","r","t"," ","u","n","s","i","g","n","e","d"," ","i","n","t">>}
       THEN TYPE_VALUE.UNSIGNED_16
  ELSE IF tmpStr \in {<<"s","h","o","r","t">>, <<"s","h","o","r","t"," ","i","n","t">>, <<"s","i","g","n","e","d"," ","s","h","o","r","t">>, <<"s","i","g","n","e","d"," ","s","h","o","r","t"," ","i","n","t">>,
                      <<"s","h","o","r","t"," ","s","i","g","n","e","d"," ","i","n","t">>}
       THEN TYPE_VALUE.SIGNED_16
  ELSE IF tmpStr = <<"u","n","s","i","g","n","e","d"," ","i","n","t">>
       THEN IF tmpSize = <<"2">> THEN TYPE_VALUE.UNSIGNED_16 ELSE TYPE_VALUE.UNSIGNED_32
  ELSE IF tmpStr \in {<<"i","n","t">>, <<"s","i","g","n","e","d"," ","i","n","t">>}
       THEN IF tmpSize = <<"2">> THEN TYPE_VALUE.SIGNED_16 ELSE TYPE_VALUE.SIGNED_32
  ELSE IF tmpStr \in {<<"u","n","s","i","g","n","e","d"," ","l","o","n","g">>, <<"u","n","s","i","g","n","e","d"," ","l","o","n","g"," ","i","n","t">>, <<"l","o","n","g"," ","u","n","s","i","g","n","e","d"," ","i","n","t">>}
       THEN TYPE_VALUE.UNSIGNED_32
  ELSE IF tmpStr \in {<<"l","o","n","g">>, <<"l","o","n","g"," ","i","n","t">>, <<"s","i","g","n","e","d"," ","l","o","n","g">>, <<"s","i","g","n","e","d"," ","l","o","n","g"," ","i","n","t">>,
                      <<"l","o","n","g"," ","s","i","g","n","e","d"," ","i","n","t">>}
       THEN TYPE_VALUE.SIGNED_32
  ELSE IF tmpStr \in {<<"u","n","s","i","g","n","e","d"," ","l","o","n","g"," ","l","o","n","g">>, <<"u","n","s","i","g","n","e","d"," ","l","o","n","g"," ","l","o","n","g"," ","i","n","t">>,
                      <<"l","o","n","g"," ","l","o","n","g"," ","u","n","s","i","g","n","e","d"," ","i","n","t">>}
       THEN TYPE_VALUE.UNSIGNED_64
  ELSE IF tmpStr \in {<<"l","o","n","g"," ","l","o","n","g">>, <<"l","o","n","g"," ","l","o","n","g"," ","i","n","t">>, <<"s","i","g","n","e","d"," ","l","o","n","g"," ","l","o","n","g">>,
                      <<"s","i","g","n","e","d"," ","l","o","n","g"," ","l","o","n","g"," ","i","n","t">>, <<"l","o","n","g"," ","l","o","n","g"," ","s","i","g","n","e","d"," ","i","n","t">>}
       THEN TYPE_VALUE.SIGNED_64
  ELSE IF tmpStr = <<"f","l","o","a","t">> THEN TYPE_VALUE.FLOAT
  ELSE IF tmpStr \in {<<"d","o","u","b","l","e">>, <<"l","o","n","g"," ","d","o","u","b","l","e">>} THEN TYPE_VALUE.DOUBLE
  ELSE TYPE_UNKNOWN

SIZE_MARKER == <<"="," ">>

\* a variant of computeTypeValue that leaves the storage class specifiers in
\* front of the type: C19 tells it from computeTypeValue
computeTypeValueOfSpecified(expr, size) ==
  TypeValueOf(Trim(expr),
              Trim(Substring(size, IndexOf(size, SIZE_MARKER) + Len(SIZE_MARKER), Len(size))))

\* a variant of computeTypeValue that takes the whole reply for the size: C20
\* tells it from computeTypeValue
computeTypeValueOfReply(expr, size) ==
  TypeValueOf(removeStorageClassSpecifier(Trim(expr)), Trim(size))

\* a variant of computeTypeValue that takes a type it does not know for an
\* int: C31 tells it from computeTypeValue
computeTypeValueOrInt(expr, size) ==
  IF computeTypeValueOfReply(expr, Substring(size, IndexOf(size, SIZE_MARKER) + Len(SIZE_MARKER), Len(size))) = TYPE_UNKNOWN
  THEN TYPE_VALUE.SIGNED_32
  ELSE computeTypeValueOfReply(expr, Substring(size, IndexOf(size, SIZE_MARKER) + Len(SIZE_MARKER), Len(size)))

\* computeTypeValue: the type value of a type, given the reply to "p sizeof"
computeTypeValue(expr, size) ==
  TypeValueOf(removeStorageClassSpecifier(Trim(expr)),
              Trim(Substring(size, IndexOf(size, SIZE_MARKER) + Len(SIZE_MARKER), Len(size))))

ADDRESS_MARKER == <<"="," ">>

\* extractAddress: the text after the first "= ", or "" without one
extractAddress(expr) ==
  LET pos == IndexOf(expr, ADDRESS_MARKER)
  IN  IF pos # -1 THEN Substring(expr, pos + Len(ADDRESS_MARKER), Len(expr)) ELSE <<>>

(***************************************************************************)
(* index.ts: the ElfParser controller.  The value of elfParser is a record *)
(* of the fields of the class; a callback is the number of the readElf     *)
(* call it was passed to (0: null or undefined), the gdb process is its    *)
(* index in the list of spawned processes (0: null).  A handler is an      *)
(* operator from the record to the record it leaves, with the commands it  *)
(* wrote to the stdin of this.gdbProcess.                                  *)
(***************************************************************************)
\* enum State
State ==
  [IDLE |-> "Idle", START_GDB |-> "Start GDB", SET_METHODS_OFF |-> "Set methods off",
   SET_TYPEDEFS_OFF |-> "init typedefs off",
   GET_VARIABLES_INFO |-> "Request Info Variables", GET_TYPE |-> "Get identifier type",
   GET_SIZE |-> "Get identifier size", GET_ADDRESS |-> "Get identifier address"]

\* enum InformationType
InformationType == [TYPE |-> "Type", SIZE |-> "Size", ADDRESS |-> "Address"]

\* enum Status
Status ==
  [ELFPARSER_OK |-> "ELFPARSER_OK",
   ELFPARSER_ELFFILENAME_NOT_FOUND |-> "Elf file not found",
   ELFPARSER_PARSING_ONGOING |-> "Parsing of the elf file is ongoing"]

GDB_SET_METHOD_OFF == <<"s","e","t"," ","p","r","i","n","t"," ","t","y","p","e"," ","m","e","t","h","o","d","s"," ","o","f","f","\n">>

GDB_SET_TYPEDEF_OFF == <<"s","e","t"," ","p","r","i","n","t"," ","t","y","p","e"," ","t","y","p","e","d","e","f","s"," ","o","f","f","\n">>

GDB_GET_INFO_VARIABLES == <<"i","n","f","o"," ","v","a","r","i","a","b","l","e","s","\n">>

GDB_GET_TYPE_HEAD == <<"p","t","y","p","e"," ">>

GDB_GET_TYPE_TAIL == <<"\n">>

GDB_GET_SIZE_HEAD == <<"p"," ","s","i","z","e","o","f"," ">>

GDB_GET_SIZE_TAIL == <<"\n">>

GDB_GET_ADDRESS_HEAD == <<"p","r","i","n","t"," ","/","x"," ","&","(">>

GDB_GET_ADDRESS_TAIL == <<")","\n">>

GDB_QUIT == <<"q","u","i","t","\n">>

GDB_PROMPT == <<"(","g","d","b",")"," ">>

GDB_RESP_TYPE_HEAD == <<"t","y","p","e"," ","="," ">>

STOP_REQUEST_TYPE == <<"S","t","o","p","R","e","q","u","e","s","t","T","y","p","e","\n">>

STOP_REQUEST_SIZE == <<"S","t","o","p","R","e","q","u","e","s","t","S","i","z","e","\n">>

STOP_REQUEST_ADDRESS == <<"S","t","o","p","R","e","q","u","e","s","t","A","d","d","r","e","s","s","\n">>

\* the constructor
NewElfParser ==
  [currentState |-> State.IDLE, previousState |-> State.IDLE, dataBuffer |-> <<>>,
   gdbProcess |-> 0, expandTableElements |-> FALSE, callback |-> 0,
   progressCallback |-> 0, gdbVariablesInfo |-> <<>>, newGdbVariablesInfo |-> <<>>,
   gdbResponseCounter |-> 0, numberOfVariables |-> 0, progressStatus |-> Num(0),
   currentFilenameIdx |-> 0, currentIdentifierIdx |-> 0]

RECURSIVE AllElements(_)
\* the elements of all file groups, in file and entry order
AllElements(info) ==
  IF info = <<>> THEN <<>> ELSE Head(info).identifiersList \o AllElements(Tail(info))

\* computeNumberOfVariables
computeNumberOfVariables(this) == Len(AllElements(this.gdbVariablesInfo))

\* the command requestAllElementsToGdb writes for one element, if any
RequestCommand(element, informationType) ==
  IF informationType = InformationType.TYPE
  THEN IF element.type = None
       THEN <<GDB_GET_TYPE_HEAD \o element.identifier \o GDB_GET_TYPE_TAIL>>
       ELSE IF CharAt(Val(element.type), 0) = "?"
       THEN <<GDB_GET_TYPE_HEAD \o SubstringFrom(Val(element.type), 1) \o GDB_GET_TYPE_TAIL>>
       ELSE <<>>
  ELSE IF informationType = InformationType.SIZE
  THEN <<GDB_GET_SIZE_HEAD \o element.identifier \o GDB_GET_SIZE_TAIL>>
  ELSE <<GDB_GET_ADDRESS_HEAD \o element.identifier \o GDB_GET_ADDRESS_TAIL>>

RECURSIVE RequestCommands(_, _)
RequestCommands(elements, informationType) ==
  IF elements = <<>> THEN <<>>
  ELSE RequestCommand(Head(elements), informationType)
         \o RequestCommands(Tail(elements), informationType)

\* requestAllElementsToGdb: one command per element, the stop command, the
\* state of the batch, the cursor reset and the number of variables
requestAllElementsToGdb(this, informationType) ==
  LET stop == IF informationType = InformationType.TYPE THEN STOP_REQUEST_TYPE
              ELSE IF informationType = InformationType.SIZE THEN STOP_REQUEST_SIZE
              ELSE STOP_REQUEST_ADDRESS
      state == IF informationType = InformationType.TYPE THEN this.currentState
               ELSE IF informationType = InformationType.SIZE THEN State.GET_SIZE
               ELSE State.GET_ADDRESS
  IN  [this |-> [this EXCEPT !.currentState = state,
                             !.currentFilenameIdx = 0,
                             !.currentIdentifierIdx = 0,
                             !.numberOfVariables = computeNumberOfVariables(this)],
       cmds |-> Append(RequestCommands(AllElements(this.gdbVariablesInfo), informationType),
                       stop)]

\* storeAllElementsFromGdb: the test that selects the element a reply is for
Wanted(element, informationType) ==
  IF informationType = InformationType.TYPE
  THEN element.type = None \/ CharAt(Val(element.type), 0) = "?"
  ELSE IF informationType = InformationType.SIZE THEN element.typeValue = None
  ELSE element.address = None

RECURSIVE FindElement(_, _, _, _)
\* the two loops of storeAllElementsFromGdb from (filenameIndex,
\* identifiersListIndex), counted from 0: the place of the first wanted
\* element, or found = FALSE
FindElement(info, informationType, filenameIndex, identifiersListIndex) ==
  IF filenameIndex >= Len(info) THEN [found |-> FALSE, f |-> 0, i |-> 0]
  ELSE IF identifiersListIndex >= Len(info[filenameIndex + 1].identifiersList)
       THEN FindElement(info, informationType, filenameIndex + 1, 0)
  ELSE IF Wanted(info[filenameIndex + 1].identifiersList[identifiersListIndex + 1],
                 informationType)
       THEN [found |-> TRUE, f |-> filenameIndex, i |-> identifiersListIndex]
  ELSE FindElement(info, informationType, filenameIndex, identifiersListIndex + 1)

\* the text of a reply without its prompt (and, for a type, without its head)
ReplyText(gdbResponse, informationType) ==
  Trim(Substring(gdbResponse,
                 IF informationType = InformationType.TYPE THEN Len(GDB_RESP_TYPE_HEAD) ELSE 0,
                 Len(gdbResponse) - Len(GDB_PROMPT)))

\* storeAllElementsFromGdb, line 567: the result r of extractType, which
\* changed the collections, is assigned to element.type; the element is no
\* longer in its list when extractType removed it
AssignType(this, f, i, r) ==
  LET info    == this.gdbVariablesInfo
      removed == /\ r.variablesInfo # info
                 /\ FileIndex(info, info[f + 1].filename) = f + 1
                 /\ LastNamed(info[f + 1].identifiersList,
                              info[f + 1].identifiersList[i + 1].identifier) = i + 1
  IN  [this EXCEPT
         !.gdbVariablesInfo =
            IF removed THEN r.variablesInfo
            ELSE [r.variablesInfo EXCEPT ![f + 1].identifiersList[i + 1].type = Some(r.type)],
         !.newGdbVariablesInfo = r.newVariablesInfo]

\* storeAllElementsFromGdb for a type
StoreType(this, gdbResponse, f, i) ==
  AssignType(this, f, i,
             extractType(this.gdbVariablesInfo, this.newGdbVariablesInfo,
                         this.gdbVariablesInfo[f + 1].filename,
                         ReplyText(gdbResponse, InformationType.TYPE),
                         this.gdbVariablesInfo[f + 1].identifiersList[i + 1].identifier,
                         this.gdbVariablesInfo[f + 1].identifiersList[i + 1].classHierarchy,
                         this.expandTableElements))

\* storeAllElementsFromGdb for a size
StoreSize(this, gdbResponse, f, i) ==
  LET element == this.gdbVariablesInfo[f + 1].identifiersList[i + 1]
  IN  IF element.type = None THEN this
      ELSE [this EXCEPT !.gdbVariablesInfo[f + 1].identifiersList[i + 1].typeValue =
              Some(computeTypeValue(Val(element.type), ReplyText(gdbResponse, InformationType.SIZE)))]

\* storeAllElementsFromGdb for an address
StoreAddress(this, gdbResponse, f, i) ==
  [this EXCEPT !.gdbVariablesInfo[f + 1].identifiersList[i + 1].address =
     Some(extractAddress(ReplyText(gdbResponse, InformationType.ADDRESS)))]

\* storeAllElementsFromGdb: store the reply on the first wanted element from
\* the cursor on; identifierFound tells whether there was one
storeAllElementsFromGdb(this, gdbResponse, informationType) ==
  LET at == FindElement(this.gdbVariablesInfo, informationType,
                        this.currentFilenameIdx, this.currentIdentifierIdx)
  IN  IF at.found
      THEN [identifierFound |-> TRUE,
            this |-> [(IF informationType = InformationType.TYPE
                       THEN StoreType(this, gdbResponse, at.f, at.i)
                       ELSE IF informationType = InformationType.SIZE
                       THEN StoreSize(this, gdbResponse, at.f, at.i)
                       ELSE StoreAddress(this, gdbResponse, at.f, at.i))
                        EXCEPT !.currentFilenameIdx = at.f,
                               !.currentIdentifierIdx = at.i,
                               !.gdbResponseCounter = @ + 1]]
      ELSE [identifierFound |-> FALSE,
            this |-> IF this.currentFilenameIdx < Len(this.gdbVariablesInfo)
                     THEN [this EXCEPT !.currentIdentifierIdx = 0]
                     ELSE this]

\* the most elements postProcessArraysInfo appends for one array
ARRAY_MAX == 10000

\* a variant of ExpandCount without the limit of 10000 elements: C11 tells it
\* from ExpandCount
ExpandCountUnlimited(arraySize) ==
  IF arraySize.nan THEN 0
  ELSE IF arraySize.inf THEN ARRAY_MAX
  ELSE Max(0, arraySize.val)

\* Math.min(arraySize, 10000) as the bound of the loop on i: no turn for NaN
ExpandCount(arraySize) ==
  IF arraySize.nan THEN 0
  ELSE IF arraySize.inf THEN ARRAY_MAX
  ELSE Max(0, Min(arraySize.val, ARRAY_MAX))

\* postProcessArraysInfo, lines 638-643: the markers in the brackets
AddMarkers(element) ==
  [element EXCEPT !.identifier =
     ReplaceAll(ReplaceAll(@, <<"[">>, <<"[", "x">>), <<"]">>, <<"x", "]">>)]

\* a variant of Marked that finds no marker: C12 tells it from Marked
MarkedNowhere(list, k) == {}

\* the places from k on of the elements with a marker
Marked(list, k) ==
  {j \in k..Len(list) : LastIndexOf(list[j].identifier, <<"[","x">>) # -1}

RECURSIVE ExpandPass(_, _, _)
\* a variant of ExpandElement that appends the elements of the array without
\* the type value of the element they come from: C32 tells it from
\* ExpandElement
ExpandElementUntyped(list, k) ==
  LET element        == list[k]
      tblStartIdx    == LastIndexOf(element.identifier, <<"[","x">>)
      tblEndIdx      == LastIndexOf(element.identifier, <<"x","]">>)
      identifierHead == Substring(element.identifier, 0, tblStartIdx + 1)
      arraySize      == ParseInt(Substring(element.identifier, tblStartIdx + 2, tblEndIdx))
      IdentifierTail == SubstringFrom(element.identifier, tblEndIdx + 1)
  IN  ExpandPass([list EXCEPT ![k].identifier =
                    identifierHead \o NumToString(arraySize) \o IdentifierTail]
                   \o [i \in 1..ExpandCount(arraySize) |->
                         [NewElement(identifierHead \o NumToString(Num(i - 1))
                                       \o IdentifierTail)
                            EXCEPT !.type = element.type]],
                 k + 1, TRUE)

\* lines 668-699 for the element at place k, which has a marker: its index
\* replaces the marker and the elements of the array are appended; the loop
\* goes on with the next element
ExpandElement(list, k) ==
  LET element        == list[k]
      tblStartIdx    == LastIndexOf(element.identifier, <<"[","x">>)
      tblEndIdx      == LastIndexOf(element.identifier, <<"x","]">>)
      identifierHead == Substring(element.identifier, 0, tblStartIdx + 1)
      arraySize      == ParseInt(Substring(element.identifier, tblStartIdx + 2, tblEndIdx))
      IdentifierTail == SubstringFrom(element.identifier, tblEndIdx + 1)
  IN  ExpandPass([list EXCEPT ![k].identifier =
                    identifierHead \o NumToString(arraySize) \o IdentifierTail]
                   \o [i \in 1..ExpandCount(arraySize) |->
                         [NewElement(identifierHead \o NumToString(Num(i - 1))
                                       \o IdentifierTail)
                            EXCEPT !.type = element.type,
                                   !.typeValue = element.typeValue]],
                 k + 1, TRUE)

\* the loop over entry.identifiersList from place k (from 1) on; the loop
\* also visits the elements it appends, and does nothing for an element
\* without a marker
ExpandPass(list, k, stillProcessing) ==
  LET marked == Marked(list, k)
  IN  IF marked = {} THEN [list |-> list, stillProcessing |-> stillProcessing]
      ELSE ExpandElement(list, CHOOSE j \in marked : \A i \in marked : j <= i)

\* a variant of ExpandEntry with one turn of the while loop: C33 tells it
\* from ExpandEntry
ExpandEntryOnce(pass) == ExpandPass(pass.list, 1, FALSE).list

RECURSIVE ExpandEntry(_)
\* the while loop on stillProcessing for one file group, pass the list and
\* the flag at the test of the loop
ExpandEntry(pass) ==
  IF pass.stillProcessing THEN ExpandEntry(ExpandPass(pass.list, 1, FALSE)) ELSE pass.list

\* postProcessArraysInfo
postProcessArraysInfo(this) ==
  IF this.expandTableElements
  THEN [this EXCEPT !.gdbVariablesInfo =
          [f \in 1..Len(@) |->
             [@[f] EXCEPT !.identifiersList =
                ExpandEntry([list |-> [k \in 1..Len(@) |-> AddMarkers(@[k])],
                             stillProcessing |-> TRUE])]]]
  ELSE this

\* a variant of ProgressRatio that does not divide by the number of
\* variables: C15 tells it from ProgressRatio
ProgressRatioOfCounter(base, span, counter, total) ==
  IF total = 0 THEN (IF counter = 0 THEN NaN ELSE Infinity)
  ELSE Num(base + (span * counter))

\* 50 + Math.floor(25 * (gdbResponseCounter / numberOfVariables)) and its like
ProgressRatio(base, span, counter, total) ==
  IF total = 0 THEN (IF counter = 0 THEN NaN ELSE Infinity)
  ELSE Num(base + ((span * counter) \div total))

\* sendProgressStatusToClient: the fields it leaves and the values it passes
\* to the progress callback
sendProgressStatusToClient(this) ==
  LET changed == this.previousState # this.currentState
      progressStatus ==
        IF this.currentState = State.IDLE THEN Num(100)
        ELSE IF this.currentState = State.GET_VARIABLES_INFO THEN Num(10)
        ELSE IF this.currentState = State.GET_TYPE THEN Num(25)
        ELSE IF this.currentState = State.GET_SIZE
             THEN IF changed THEN Num(50)
                  ELSE ProgressRatio(50, 75 - 50, this.gdbResponseCounter,
                                     this.numberOfVariables)
        ELSE IF this.currentState = State.GET_ADDRESS
             THEN IF changed THEN Num(75)
                  ELSE ProgressRatio(75, 100 - 75, this.gdbResponseCounter,
                                     this.numberOfVariables)
        ELSE Num(0)
      reset == this.currentState \in {State.GET_SIZE, State.GET_ADDRESS} /\ changed
      \* NaN !== NaN
      differs == progressStatus.nan \/ this.progressStatus # progressStatus
  IN  IF this.progressCallback = 0 THEN [this |-> this, progress |-> <<>>]
      ELSE [this |-> [this EXCEPT
                        !.gdbResponseCounter = IF reset THEN 0 ELSE @,
                        !.previousState = this.currentState,
                        !.progressStatus = IF differs THEN progressStatus ELSE @],
            progress |-> IF differs
                         THEN <<[cb |-> this.progressCallback, value |-> progressStatus]>>
                         ELSE <<>>]

\* readData, lines 349-360: move newGdbVariablesInfo into gdbVariablesInfo; the
\* elements of a new group go to every group of the same file name
MergeNewVariables(this) ==
  [this EXCEPT
     !.gdbVariablesInfo =
        [f \in 1..Len(@) |->
           [@[f] EXCEPT !.identifiersList =
              @ \o AllElements(SelectSeq(this.newGdbVariablesInfo,
                                         LAMBDA n : n.filename =
                                                    this.gdbVariablesInfo[f].filename))]],
     !.newGdbVariablesInfo = <<>>]

\* a variant of AfterStore that requests the addresses without
\* postProcessArraysInfo: C23 tells it from AfterStore
AfterStoreWithoutArrays(stored) ==
  LET this == stored.this
  IN  IF stored.identifierFound THEN [this |-> this, cmds |-> <<>>]
      ELSE IF this.currentState = State.GET_TYPE
      THEN IF Len(this.newGdbVariablesInfo) # 0
           THEN requestAllElementsToGdb(MergeNewVariables(this), InformationType.TYPE)
           ELSE requestAllElementsToGdb(this, InformationType.SIZE)
      ELSE IF this.currentState = State.GET_SIZE
      THEN requestAllElementsToGdb(this, InformationType.ADDRESS)
      ELSE [this |-> [this EXCEPT !.currentState = State.IDLE], cmds |-> <<GDB_QUIT>>]

\* a variant of AfterStore that requests the sizes after the first pass of
\* types, with the new elements merged: C24 tells it from AfterStore
AfterStoreOnePass(stored) ==
  LET this == stored.this
  IN  IF stored.identifierFound THEN [this |-> this, cmds |-> <<>>]
      ELSE IF this.currentState = State.GET_TYPE
      THEN requestAllElementsToGdb(MergeNewVariables(this), InformationType.SIZE)
      ELSE IF this.currentState = State.GET_SIZE
      THEN requestAllElementsToGdb(postProcessArraysInfo(this), InformationType.ADDRESS)
      ELSE [this |-> [this EXCEPT !.currentState = State.IDLE], cmds |-> <<GDB_QUIT>>]

\* a variant of AfterStore that requests the addresses when all the types are
\* known, without the state GET_SIZE: C6 tells it from AfterStore
AfterStoreSkippingSizes(stored) ==
  LET this == stored.this
  IN  IF stored.identifierFound THEN [this |-> this, cmds |-> <<>>]
      ELSE IF this.currentState = State.GET_TYPE
      THEN IF Len(this.newGdbVariablesInfo) # 0
           THEN requestAllElementsToGdb(MergeNewVariables(this), InformationType.TYPE)
           ELSE requestAllElementsToGdb(this, InformationType.ADDRESS)
      ELSE [this |-> [this EXCEPT !.currentState = State.IDLE], cmds |-> <<GDB_QUIT>>]

\* a variant of AfterStore that writes no quit after the addresses: C39 tells
\* it from AfterStore
AfterStoreWithoutQuit(stored) ==
  LET this == stored.this
  IN  IF stored.identifierFound THEN [this |-> this, cmds |-> <<>>]
      ELSE IF this.currentState = State.GET_TYPE
      THEN IF Len(this.newGdbVariablesInfo) # 0
           THEN requestAllElementsToGdb(MergeNewVariables(this), InformationType.TYPE)
           ELSE requestAllElementsToGdb(this, InformationType.SIZE)
      ELSE IF this.currentState = State.GET_SIZE
      THEN requestAllElementsToGdb(postProcessArraysInfo(this), InformationType.ADDRESS)
      ELSE [this |-> [this EXCEPT !.currentState = State.IDLE], cmds |-> <<>>]

\* readData, lines 346-373, 380-388 and 395-400: what follows the call of
\* storeAllElementsFromGdb, stored its result; requestAllElementsToGdb has set
\* the state of lines 371 and 387
AfterStore(stored) ==
  LET this == stored.this
  IN  IF stored.identifierFound THEN [this |-> this, cmds |-> <<>>]
      ELSE IF this.currentState = State.GET_TYPE
      THEN IF Len(this.newGdbVariablesInfo) # 0
           THEN requestAllElementsToGdb(MergeNewVariables(this), InformationType.TYPE)
           ELSE requestAllElementsToGdb(this, InformationType.SIZE)
      ELSE IF this.currentState = State.GET_SIZE
      THEN requestAllElementsToGdb(postProcessArraysInfo(this), InformationType.ADDRESS)
      ELSE [this |-> [this EXCEPT !.currentState = State.IDLE], cmds |-> <<GDB_QUIT>>]

\* a variant of AfterParse that appends the result of parseGdbVariablesInfo to
\* the collection: C10 tells it from AfterParse
AfterParseAppending(this, gdbVariablesInfo) ==
  LET parsed == [this EXCEPT !.gdbVariablesInfo = @ \o gdbVariablesInfo]
      Became(r, state) == [this |-> [r.this EXCEPT !.currentState = state], cmds |-> r.cmds]
  IN  IF Len(parsed.gdbVariablesInfo) = 0
      THEN [this |-> [parsed EXCEPT !.currentState = State.IDLE], cmds |-> <<GDB_QUIT>>]
      ELSE Became(requestAllElementsToGdb(parsed, InformationType.TYPE), State.GET_TYPE)

\* a variant of AfterParse that asks for the types also when the collection
\* is empty: C18 tells it from AfterParse
AfterParseAsking(this, gdbVariablesInfo) ==
  LET parsed == [this EXCEPT !.gdbVariablesInfo = gdbVariablesInfo]
      Became(r, state) == [this |-> [r.this EXCEPT !.currentState = state], cmds |-> r.cmds]
  IN  Became(requestAllElementsToGdb(parsed, InformationType.TYPE), State.GET_TYPE)

\* readData, lines 324-339: the result gdbVariablesInfo of
\* parseGdbVariablesInfo replaces the collection, and what follows
AfterParse(this, gdbVariablesInfo) ==
  LET parsed == [this EXCEPT !.gdbVariablesInfo = gdbVariablesInfo]
      Became(r, state) == [this |-> [r.this EXCEPT !.currentState = state], cmds |-> r.cmds]
  IN  IF Len(parsed.gdbVariablesInfo) = 0
      THEN [this |-> [parsed EXCEPT !.currentState = State.IDLE], cmds |-> <<GDB_QUIT>>]
      ELSE Became(requestAllElementsToGdb(parsed, InformationType.TYPE), State.GET_TYPE)

\* readData, lines 300-405: the treatment of one reply in the current state
HandleResponse(this, gdbResponse) ==
  CASE this.currentState = State.START_GDB ->
         [this |-> [this EXCEPT !.currentState = State.SET_METHODS_OFF],
          cmds |-> <<GDB_SET_METHOD_OFF>>]
    [] this.currentState = State.SET_METHODS_OFF ->
         [this |-> [this EXCEPT !.currentState = State.SET_TYPEDEFS_OFF],
          cmds |-> <<GDB_SET_TYPEDEF_OFF>>]
    [] this.currentState = State.SET_TYPEDEFS_OFF ->
         [this |-> [this EXCEPT !.currentState = State.GET_VARIABLES_INFO],
          cmds |-> <<GDB_GET_INFO_VARIABLES>>]
    [] this.currentState = State.GET_VARIABLES_INFO ->
         AfterParse(this, parseGdbVariablesInfo(gdbResponse, this.expandTableElements))
    [] this.currentState = State.GET_TYPE ->
         AfterStore(storeAllElementsFromGdb(this, gdbResponse, InformationType.TYPE))
    [] this.currentState = State.GET_SIZE ->
         AfterStore(storeAllElementsFromGdb(this, gdbResponse, InformationType.SIZE))
    [] this.currentState = State.GET_ADDRESS ->
         AfterStore(storeAllElementsFromGdb(this, gdbResponse, InformationType.ADDRESS))
    [] OTHER -> [this |-> this, cmds |-> <<>>]

RECURSIVE ReadResponses(_, _, _)
\* readData, lines 294-405: one turn of the loop, for the reply gdbResponse
\* treated in the state from, handled the result of its treatment
NextResponse(gdbResponse, from, handled, cmds, responses) ==
  ReadResponses(handled.this, cmds \o handled.cmds,
                Append(responses, [gdbResponse |-> gdbResponse, from |-> from,
                                   to |-> handled.this.currentState]))

\* readData, lines 285-409: the loop that slices the replies off dataBuffer,
\* then sendProgressStatusToClient; cmds are the commands written so far and
\* responses the replies treated so far, each with the state it was treated
\* in and the state it left
ReadResponses(this, cmds, responses) ==
  LET endGdbResponse == IndexOf(this.dataBuffer, GDB_PROMPT)
      sent           == sendProgressStatusToClient(this)
  IN  IF this.dataBuffer = <<>> \/ endGdbResponse = -1
      THEN [this |-> sent.this, cmds |-> cmds, responses |-> responses,
            progress |-> sent.progress]
      ELSE NextResponse(
             Substring(this.dataBuffer, 0, endGdbResponse + Len(GDB_PROMPT)),
             this.currentState,
             HandleResponse(
               [this EXCEPT !.dataBuffer =
                  SubstringFrom(@, endGdbResponse + Len(GDB_PROMPT))],
               Substring(this.dataBuffer, 0, endGdbResponse + Len(GDB_PROMPT))),
             cmds, responses)

\* a variant of readData that assigns data to dataBuffer where readData
\* concatenates: C7 tells it from readData
readDataDroppingBuffer(this, data) ==
  IF ~Includes(data, GDB_PROMPT)
  THEN [this |-> [this EXCEPT !.dataBuffer = data], cmds |-> <<>>,
        responses |-> <<>>, progress |-> <<>>]
  ELSE ReadResponses([this EXCEPT !.dataBuffer = data], <<>>, <<>>)

\* a variant of readData that looks for the prompt in data where readData
\* looks for it in dataBuffer with data: C38 tells it from readData
readDataTestingData(this, data) ==
  IF ~Includes(data, GDB_PROMPT)
  THEN [this |-> [this EXCEPT !.dataBuffer = @ \o data], cmds |-> <<>>,
        responses |-> <<>>, progress |-> <<>>]
  ELSE ReadResponses([this EXCEPT !.dataBuffer = @ \o data], <<>>, <<>>)

\* readData: the fields it leaves, the commands it wrote, the replies it
\* treated and the values it passed to the progress callback
readData(this, data) ==
  IF ~Includes(this.dataBuffer \o data, GDB_PROMPT)
  THEN [this |-> [this EXCEPT !.dataBuffer = @ \o data], cmds |-> <<>>,
        responses |-> <<>>, progress |-> <<>>]
  ELSE ReadResponses([this EXCEPT !.dataBuffer = @ \o data], <<>>, <<>>)

HexDigits == <<"0","1","2","3","4","5","6","7","8","9","a","b","c","d","e","f">>

LowerCase == <<"a","b","c","d","e","f","g","h","i","j","k","l","m","n","o","p","q","r","s","t","u","v","w","x","y","z">>

UpperCase == <<"A","B","C","D","E","F","G","H","I","J","K","L","M","N","O","P","Q","R","S","T","U","V","W","X","Y","Z">>

IsUpper(c) == \E k \in 1..Len(UpperCase) : UpperCase[k] = c

ToLower(c) ==
  IF IsUpper(c) THEN LowerCase[CHOOSE k \in 1..Len(UpperCase) : UpperCase[k] = c] ELSE c

IsHexDigit(c) == \E d \in 1..16 : HexDigits[d] = ToLower(c)

HexDigitValue(c) == (CHOOSE d \in 1..16 : HexDigits[d] = ToLower(c)) - 1

RECURSIVE HexValue(_, _)
HexValue(s, acc) ==
  IF s = <<>> THEN acc ELSE HexValue(Tail(s), acc * 16 + HexDigitValue(Head(s)))

\* Number(text) for the texts of an address: white space is trimmed, "" is 0,
\* a hexadecimal literal and a signed decimal integer have their value, and
\* any other text here is NaN
NumberOf(text) ==
  LET t      == Trim(text)
      hex    == SubstringFrom(t, 2)
      signed == t # <<>> /\ Head(t) \in {"-", "+"}
      body   == IF signed THEN Tail(t) ELSE t
  IN  IF t = <<>> THEN Num(0)
      ELSE IF StartsWith(t, <<"0", "x">>) \/ StartsWith(t, <<"0", "X">>)
           THEN IF hex # <<>> /\ \A k \in 1..Len(hex) : IsHexDigit(hex[k])
                THEN Num(HexValue(hex, 0)) ELSE NaN
      ELSE IF body # <<>> /\ \A k \in 1..Len(body) : IsDigit(body[k])
           THEN Num(IF Head(t) = "-" THEN 0 - DigitsValue(body, 0) ELSE DigitsValue(body, 0))
      ELSE NaN

RECURSIVE NatToHex(_)
NatToHex(n) ==
  IF n < 16 THEN <<HexDigits[n + 1]>>
  ELSE NatToHex(n \div 16) \o <<HexDigits[(n % 16) + 1]>>

\* Number.prototype.toString(16)
ToString16(x) ==
  IF x.nan THEN <<"N","a","N">>
  ELSE IF x.inf THEN <<"I","n","f","i","n","i","t","y">>
  ELSE IF x.val < 0 THEN <<"-">> \o NatToHex(0 - x.val)
  ELSE NatToHex(x.val)

\* String.prototype.padStart(n, "0")
PadStart(s, n) == [k \in 1..(n - Len(s)) |-> "0"] \o s

\* sendVariablesInfoToClient, lines 437-441: the address as delivered
FormatAddress(address) == <<"0", "x">> \o PadStart(ToString16(NumberOf(address)), 8)

(***************************************************************************)
(* String.prototype.localeCompare in the default locale, for the           *)
(* characters of identifiers: punctuation sorts before digits, digits      *)
(* before letters, and two names that differ only in case are ordered by   *)
(* their first difference in case, the lower case first.                   *)
(***************************************************************************)
CollationOrder ==
  <<"_", "-", ",", ";", ":", "!", "?", ".", "'", "(", ")", "[", "]", "{", "}", "@", "*",
    "/", "&", "#", "%", "+", "<", "=", ">", "|", "~", "$">> \o Digits \o LowerCase

Primary(c) ==
  IF \E k \in 1..Len(CollationOrder) : CollationOrder[k] = ToLower(c)
  THEN CHOOSE k \in 1..Len(CollationOrder) : CollationOrder[k] = ToLower(c)
  ELSE 0

CaseKey(c) == IF IsUpper(c) THEN 1 ELSE 0

\* the key of character c at a level of the comparison: the letter at level
\* 1, the case at level 2
Key(level, c) == IF level = 1 THEN Primary(c) ELSE CaseKey(c)

RECURSIVE CompareBy(_, _, _)
\* the lexicographic comparison of two texts by the key of their characters
CompareBy(level, a, b) ==
  IF a = <<>> /\ b = <<>> THEN 0
  ELSE IF a = <<>> THEN -1
  ELSE IF b = <<>> THEN 1
  ELSE IF Key(level, Head(a)) < Key(level, Head(b)) THEN -1
  ELSE IF Key(level, Head(a)) > Key(level, Head(b)) THEN 1
  ELSE CompareBy(level, Tail(a), Tail(b))

localeCompare(a, b) ==
  LET primary == CompareBy(1, a, b)
  IN  IF primary # 0 THEN primary ELSE CompareBy(2, a, b)

RECURSIVE InsertSorted(_, _)
\* insert v after the elements of the sorted list that do not compare greater
InsertSorted(sorted, v) ==
  IF sorted = <<>> THEN <<v>>
  ELSE IF localeCompare(Last(sorted).name, v.name) <= 0 THEN Append(sorted, v)
  ELSE Append(InsertSorted(SubSeq(sorted, 1, Len(sorted) - 1), v), Last(sorted))

\* a variant of SortByName that leaves the list in the order of the
\* collection: C9 tells it from SortByName
SortByNameUnsorted(list) == list

RECURSIVE SortByName(_)
\* Array.prototype.sort with (a, b) => a.name.localeCompare(b.name): stable
SortByName(list) ==
  IF list = <<>> THEN <<>>
  ELSE InsertSorted(SortByName(SubSeq(list, 1, Len(list) - 1)), Last(list))

\* sendVariablesInfoToClient, line 435: the elements that are delivered
Delivered(element) ==
  /\ element.address # None
  /\ element.address # Some(<<>>)
  /\ element.typeValue # None

\* a variant of sendVariablesInfoToClient that passes the empty list when the
\* session is not at its end: C16 tells it from sendVariablesInfoToClient
sendVariablesInfoToClientAtEnd(this) ==
  LET kept == SelectSeq(AllElements(this.gdbVariablesInfo), Delivered)
      variablesInfo == [k \in 1..Len(kept) |->
                          [address |-> FormatAddress(Val(kept[k].address)),
                           name |-> kept[k].identifier,
                           type |-> Val(kept[k].typeValue)]]
  IN  IF this.currentState # State.IDLE THEN <<>> ELSE SortByName(variablesInfo)

\* sendVariablesInfoToClient: the list passed to this.callback
sendVariablesInfoToClient(this) ==
  LET kept == SelectSeq(AllElements(this.gdbVariablesInfo), Delivered)
      variablesInfo == [k \in 1..Len(kept) |->
                          [address |-> FormatAddress(Val(kept[k].address)),
                           name |-> kept[k].identifier,
                           type |-> Val(kept[k].typeValue)]]
  IN  SortByName(variablesInfo)

\* a variant of readElf that returns the status of a rejected call without the
\* call of the callback: C2 tells it from readElf
readElfWithoutCallback(this, exists, callback, expandTableElements, progressCallback, gdbProcess) ==
  LET stored == [this EXCEPT !.callback = callback,
                             !.expandTableElements = expandTableElements,
                             !.progressCallback = progressCallback]
      status == IF ~exists THEN Status.ELFPARSER_ELFFILENAME_NOT_FOUND
                ELSE IF this.currentState # State.IDLE THEN Status.ELFPARSER_PARSING_ONGOING
                ELSE Status.ELFPARSER_OK
  IN  IF status = Status.ELFPARSER_OK
      THEN [this |-> [stored EXCEPT !.currentState = State.START_GDB, !.gdbProcess = gdbProcess],
            status |-> status, spawned |-> TRUE, called |-> <<>>]
      ELSE [this |-> stored, status |-> status, spawned |-> FALSE, called |-> <<>>]

\* readElf: the fields it leaves, the status it returns, whether it spawned a
\* gdb process (which then is process number gdbProcess) and the lists it
\* passed to the callback; exists tells whether the file elfFilename exists
readElf(this, exists, callback, expandTableElements, progressCallback, gdbProcess) ==
  LET stored == [this EXCEPT !.callback = callback,
                             !.expandTableElements = expandTableElements,
                             !.progressCallback = progressCallback]
      status == IF ~exists THEN Status.ELFPARSER_ELFFILENAME_NOT_FOUND
                ELSE IF this.currentState # State.IDLE THEN Status.ELFPARSER_PARSING_ONGOING
                ELSE Status.ELFPARSER_OK
  IN  IF status = Status.ELFPARSER_OK
      THEN [this |-> [stored EXCEPT !.currentState = State.START_GDB, !.gdbProcess = gdbProcess],
            status |-> status, spawned |-> TRUE, called |-> <<>>]
      ELSE [this |-> stored, status |-> status, spawned |-> FALSE,
            called |-> << <<>> >>]

(***************************************************************************)
(* The gdb subprocess, as the controller sees it (index.ts, lines 232-248): *)
(* a process prints a banner and a prompt when it starts, answers every    *)
(* command line written to its stdin with a reply that ends with the       *)
(* prompt, in order, and exits on "quit".  An unknown command or           *)
(* expression is reported on stderr, so its reply on stdout is the prompt  *)
(* alone.  The target files are those of the tests, reduced: a file        *)
(* without variables (null.out) and a file with two source files, a        *)
(* variable of a type that is not in the table of computeTypeValue, a      *)
(* structure, an array and a name declared in both source files.           *)
(***************************************************************************)
NullTarget ==
  [listing |-> <<"A","l","l"," ","d","e","f","i","n","e","d"," ","v","a","r","i","a","b","l","e","s",":","\n">>,
   symbols |-> <<>>]

AppTarget ==
  [listing |-> <<"A","l","l"," ","d","e","f","i","n","e","d"," ","v","a","r","i","a","b","l","e","s",":","\n","\n","F","i","l","e"," ","a",":","\n","b","o","o","l"," ","y",";","\n","s","t","r","u","c","t"," ","S"," ","s",";","\n","\n","F","i","l","e"," ","b",":","\n","s","t","a","t","i","c"," ","b","o","o","l"," ","y",";","\n","c","h","a","r"," ","t","[","2","]",";","\n">>,
   symbols |-> <<[expr |-> <<"y">>, type |-> <<"b","o","o","l">>, size |-> <<"1">>, address |-> <<"0","x","1","0">>],
                 [expr |-> <<"s">>, type |-> <<"s","t","r","u","c","t"," ","S"," ","{","\n"," "," "," "," ","i","n","t"," ","m",";","\n","}">>, size |-> <<"4">>,
                  address |-> <<"0","x","1","4">>],
                 [expr |-> <<"s",".","m">>, type |-> <<"i","n","t">>, size |-> <<"4">>, address |-> <<"0","x","1","4">>],
                 [expr |-> <<"t","[","0","]">>, type |-> <<"c","h","a","r">>, size |-> <<"1">>, address |-> <<"0","x","1","8">>],
                 [expr |-> <<"t","[","1","]">>, type |-> <<"c","h","a","r">>, size |-> <<"1">>, address |-> <<"0","x","1","9">>]>>]

\* a target file whose only variable is an array of two dimensions, which
\* extractIdentifiers does not manage: a file group without a variable
MatrixTarget ==
  [listing |-> NullTarget.listing \o <<"\n","F","i","l","e"," ","a",":","\n","i","n","t"," ","m","[","2","]","[","2","]",";","\n">>,
   symbols |-> <<>>]

\* the target files that exist
Targets == <<NullTarget, AppTarget, MatrixTarget>>

RECURSIVE Concat(_)
Concat(texts) == IF texts = <<>> THEN <<>> ELSE Head(texts) \o Concat(Tail(texts))

(***************************************************************************)
(* The target files of C++ programs: one variable s of a class with base   *)
(* classes, of a class or struct with a pointer to its own type, of a      *)
(* class with a static member of its own type, and of a class with a       *)
(* member of another class.                                                *)
(***************************************************************************)
\* the text gdb prints for the type name declared with the keyword (class,
\* struct or union), its base classes and its member declarations, with the
\* options "methods off" and "typedefs off"
Aggregate(keyword, name, bases, members) ==
  keyword \o <<" ">> \o name
    \o (IF bases = <<>> THEN <<>>
        ELSE <<" ",":"," ","p","u","b","l","i","c"," ">> \o Head(bases)
               \o Concat([k \in 1..(Len(bases) - 1) |-> <<","," ","p","u","b","l","i","c"," ">> \o bases[k + 1]]))
    \o <<" ","{","\n">>
    \o (IF keyword = <<"c","l","a","s","s">> THEN <<" "," ","p","u","b","l","i","c",":","\n">> ELSE <<>>)
    \o Concat([k \in 1..Len(members) |-> <<" "," "," "," ">> \o members[k] \o <<";","\n">>])
    \o <<"}">>

\* what gdb knows about an expression of the type, of four bytes
Known(expr, type) ==
  [expr |-> expr, type |-> type, size |-> <<"4">>, address |-> <<"0","x","1","0">>]

\* a target file with one variable s of the type name; known are the
\* expressions gdb can evaluate
ClassTarget(name, known) ==
  [listing |-> NullTarget.listing \o <<"\n">> \o FILE_MARKER_START \o <<"a">> \o FILE_MARKER_END
                 \o name \o <<" ","s",";","\n">>,
   symbols |-> known,
   class |-> name]

\* a class has at most MaxBases base classes
MaxBases == 2

\* the name of base class k
BaseName(k) == <<"B">> \o NatToString(k)

\* class D : public B1, ..., public Bn { int d; } s, and class Bk { int bk; }
DerivedTarget(bases) ==
  ClassTarget(
    <<"D">>,
    <<Known(<<"s">>, Aggregate(<<"c","l","a","s","s">>, <<"D">>, [k \in 1..bases |-> BaseName(k)], <<<<"i","n","t"," ","d">>>>)),
      Known(<<"s",".","d">>, <<"i","n","t">>)>>
      \o [k \in 1..bases |->
            Known(BaseName(k),
                  Aggregate(<<"c","l","a","s","s">>, BaseName(k), <<>>, <<<<"i","n","t"," ","b">> \o NatToString(k)>>))]
      \o [k \in 1..bases |-> Known(<<"s",".","b">> \o NatToString(k), <<"i","n","t">>)])

\* keyword N { N *next; int v; } s: a member that points to its own type
NodeTarget(keyword) ==
  ClassTarget(
    <<"N">>,
    <<Known(<<"s">>, Aggregate(keyword, <<"N">>, <<>>, <<<<"N"," ","*","n","e","x","t">>, <<"i","n","t"," ","v">>>>)),
      Known(<<"s",".","n","e","x","t">>, Aggregate(keyword, <<"N">>, <<>>, <<<<"N"," ","*","n","e","x","t">>, <<"i","n","t"," ","v">>>>) \o <<" ","*">>),
      Known(<<"s",".","v">>, <<"i","n","t">>)>>)

\* class S { static S inst; int x; } s: a static member of its own type
SelfTarget ==
  ClassTarget(
    <<"S">>,
    <<Known(<<"s">>, Aggregate(<<"c","l","a","s","s">>, <<"S">>, <<>>, <<<<"s","t","a","t","i","c"," ","S"," ","i","n","s","t">>, <<"i","n","t"," ","x">>>>)),
      Known(<<"s",".","i","n","s","t">>, Aggregate(<<"c","l","a","s","s">>, <<"S">>, <<>>, <<<<"s","t","a","t","i","c"," ","S"," ","i","n","s","t">>, <<"i","n","t"," ","x">>>>)),
      Known(<<"s",".","x">>, <<"i","n","t">>),
      Known(<<"s",".","i","n","s","t",".","x">>, <<"i","n","t">>)>>)

\* class AB { A a; } s and class A { int x; }: a member of a class whose
\* name is a part of the name of the class that holds it
NestedTarget ==
  ClassTarget(
    <<"A","B">>,
    <<Known(<<"s">>, Aggregate(<<"c","l","a","s","s">>, <<"A","B">>, <<>>, <<<<"A"," ","a">>>>)),
      Known(<<"s",".","a">>, Aggregate(<<"c","l","a","s","s">>, <<"A">>, <<>>, <<<<"i","n","t"," ","x">>>>)),
      Known(<<"s",".","a",".","x">>, <<"i","n","t">>)>>)

\* the target files of C++ programs
ClassTargets ==
  [bases \in 1..MaxBases |-> DerivedTarget(bases)]
    \o <<NodeTarget(<<"c","l","a","s","s">>), NodeTarget(<<"s","t","r","u","c","t">>), SelfTarget, NestedTarget>>

(***************************************************************************)
(* The target files with an array of structures that have an array as      *)
(* member: struct S { int v[columns]; } a[rows].                           *)
(***************************************************************************)
\* the array a has at most MaxRows elements
MaxRows == 2

\* the member v has at most MaxColumns elements
MaxColumns == 2

\* the expression a[r]
Row(r) == <<"a","[">> \o NatToString(r) \o <<"]">>

\* the expression a[r].v[c]
Cell(r, c) == Row(r) \o <<".","v","[">> \o NatToString(c) \o <<"]">>

\* struct S { int v[columns]; } a[rows]: gdb knows every a[r] and every
\* a[r].v[c], each at an address of its own
GridTarget(rows, columns) ==
  [listing |-> NullTarget.listing \o <<"\n">> \o FILE_MARKER_START \o <<"a">> \o FILE_MARKER_END
                 \o <<"s","t","r","u","c","t"," ","S"," ","a","[">> \o NatToString(rows) \o <<"]",";","\n">>,
   symbols |-> [k \in 1..rows |->
                  [expr |-> Row(k - 1),
                   type |-> Aggregate(<<"s","t","r","u","c","t">>, <<"S">>, <<>>, <<<<"i","n","t"," ","v","[">> \o NatToString(columns) \o <<"]">>>>),
                   size |-> NatToString(4 * columns),
                   address |-> <<"0","x">> \o NatToString(100 + (10 * (k - 1)))]]
               \o [k \in 1..(rows * columns) |->
                     [expr |-> Cell((k - 1) \div columns, (k - 1) % columns),
                      type |-> <<"i","n","t">>, size |-> <<"4">>,
                      address |-> <<"0","x">> \o NatToString(100 + (10 * ((k - 1) \div columns)) + ((k - 1) % columns))]],
   class |-> <<"S">>]

\* the target files with an array of structures
ArrayTargets ==
  [k \in 1..(MaxRows * MaxColumns) |->
     GridTarget(((k - 1) \div MaxColumns) + 1, ((k - 1) % MaxColumns) + 1)]

\* all the target files; a process holds the number of its target file
Programs == Targets \o ClassTargets \o ArrayTargets

GdbBanner == <<"G","N","U"," ","g","d","b","\n">>

\* what gdb knows about an expression: a sequence of at most one symbol
Symbol(target, expr) == SelectSeq(target.symbols, LAMBDA s : s.expr = expr)

\* the expression of a command, between its head and its tail
CommandExpr(command, head, tail) == Substring(command, Len(head), Len(command) - Len(tail))

\* what gdb prints on stdout for one command line
GdbReply(target, command) ==
  LET type == Symbol(target, CommandExpr(command, GDB_GET_TYPE_HEAD, GDB_GET_TYPE_TAIL))
      size == Symbol(target, CommandExpr(command, GDB_GET_SIZE_HEAD, GDB_GET_SIZE_TAIL))
      addr == Symbol(target, CommandExpr(command, GDB_GET_ADDRESS_HEAD, GDB_GET_ADDRESS_TAIL))
  IN  IF command = GDB_GET_INFO_VARIABLES THEN target.listing \o GDB_PROMPT
      ELSE IF StartsWith(command, GDB_GET_TYPE_HEAD) /\ type # <<>>
           THEN GDB_RESP_TYPE_HEAD \o type[1].type \o <<"\n">> \o GDB_PROMPT
      ELSE IF StartsWith(command, GDB_GET_SIZE_HEAD) /\ size # <<>>
           THEN <<"$","1"," ","="," ">> \o size[1].size \o <<"\n">> \o GDB_PROMPT
      ELSE IF StartsWith(command, GDB_GET_ADDRESS_HEAD) /\ addr # <<>>
           THEN <<"$","1"," ","="," ">> \o addr[1].address \o <<"\n">> \o GDB_PROMPT
      ELSE GDB_PROMPT

\* a process that spawn has just started on the target file number target;
\* stdout is the output it has written and the controller has not yet read,
\* reply by reply
NewProcess(target) ==
  [target |-> target, state |-> "running", stdout |-> <<GdbBanner \o GDB_PROMPT>>,
   stdin |-> <<>>]

RECURSIVE GdbWrite(_, _)
\* sendCommandToGdb, for the commands of one handler: gdbProcess.stdin.write;
\* a process that exited reads no more commands
GdbWrite(process, cmds) ==
  IF cmds = <<>> THEN process
  ELSE GdbWrite(
         IF process.state # "running" THEN [process EXCEPT !.stdin = Append(@, Head(cmds))]
         ELSE IF Head(cmds) = GDB_QUIT
         THEN [process EXCEPT !.stdin = Append(@, Head(cmds)), !.state = "exited"]
         ELSE [process EXCEPT !.stdin = Append(@, Head(cmds)),
                              !.stdout = Append(@, GdbReply(Programs[process.target],
                                                             Head(cmds)))],
         Tail(cmds))

(***************************************************************************)
(* The state: the ElfParser instance, the gdb processes it spawned, and    *)
(* the record of what the client and the instance did.                     *)
(***************************************************************************)
VARIABLES
  elfParser,  \* the fields of the ElfParser instance
  processes,  \* the gdb processes spawned so far, in the order of spawn
  calls,      \* the readElf calls made so far, with the status each returned
  results,    \* the invocations of result callbacks so far
  progress,   \* the invocations of progress callbacks so far
  received,   \* all the data passed to readData so far, concatenated
  treated,    \* all the replies readData sliced off so far, concatenated
  last        \* what the last handler did

vars == <<elfParser, processes, calls, results, progress, received, treated, last>>

\* the most readElf calls of a behaviour
MaxCalls == 2

\* a chunk of the output of gdb holds at most MaxReplies replies
MaxReplies == 2

\* a chunk of the output of gdb ends at the end of a reply or at most
\* MaxPartial characters before it
MaxPartial == 1

\* the chunk that holds the first n pending replies of stdout but the last j
\* characters of them, and the output that is pending after it
Chunk(stdout, n, j) ==
  [data |-> SubSeq(Concat(SubSeq(stdout, 1, n)), 1, Len(Concat(SubSeq(stdout, 1, n))) - j),
   rest |-> (IF j > 0 THEN <<SubSeq(stdout[n], Len(stdout[n]) - j + 1, Len(stdout[n]))>>
             ELSE <<>>) \o SubSeq(stdout, n + 1, Len(stdout))]

\* the steps of the state machine a handler took, for the replies it treated
Steps(responses) ==
  [k \in 1..Len(responses) |->
     [from |-> responses[k].from, to |-> responses[k].to,
      gdbResponse |-> Some(responses[k].gdbResponse)]]

Init ==
  /\ elfParser = NewElfParser
  /\ processes = <<>>
  /\ calls = <<>>
  /\ results = <<>>
  /\ progress = <<>>
  /\ received = <<>>
  /\ treated = <<>>
  /\ last = [op |-> "new", process |-> 0, steps |-> <<>>, cmds |-> <<>>]

\* the client calls readElf; target 0 is a file that does not exist
ReadElf(target, expandTableElements, withProgress) ==
  LET call == Len(calls) + 1
      r    == readElf(elfParser, target # 0, call, expandTableElements,
                      IF withProgress THEN call ELSE 0, Len(processes) + 1)
  IN  /\ elfParser' = r.this
      /\ processes' = IF r.spawned THEN Append(processes, NewProcess(target)) ELSE processes
      /\ calls' = Append(calls, [exists |-> target # 0,
                                 expandTableElements |-> expandTableElements,
                                 withProgress |-> withProgress,
                                 status |-> r.status,
                                 fired |-> Len(results),
                                 gdbProcess |-> IF r.spawned THEN Len(processes) + 1 ELSE 0])
      /\ results' = results \o [k \in 1..Len(r.called) |->
                                  [callback |-> r.this.callback, variablesInfo |-> r.called[k],
                                   process |-> 0]]
      /\ last' = [op |-> "readElf", process |-> 0,
                  steps |-> IF r.spawned
                            THEN <<[from |-> elfParser.currentState,
                                    to |-> r.this.currentState, gdbResponse |-> None]>>
                            ELSE <<>>,
                  cmds |-> <<>>]
      /\ UNCHANGED <<progress, received, treated>>

\* readData has treated a chunk of the output of process p, with the result
\* read: the commands it wrote go to the stdin of this.gdbProcess
Deliver(p, chunk, read) ==
  /\ elfParser' = read.this
  /\ processes' = [[processes EXCEPT ![p].stdout = chunk.rest]
                     EXCEPT ![elfParser.gdbProcess] = GdbWrite(@, read.cmds)]
  /\ progress' = progress \o read.progress
  /\ received' = received \o chunk.data
  /\ treated' = treated \o Concat([i \in 1..Len(read.responses) |->
                                     read.responses[i].gdbResponse])
  /\ last' = [op |-> "readData", process |-> p, steps |-> Steps(read.responses),
              cmds |-> read.cmds]
  /\ UNCHANGED <<calls, results>>

\* the listener of gdbProcess.stdout of process p gets a chunk: the next n
\* replies but the last j characters
StdoutData(p, n, j) ==
  /\ processes[p].state # "closed"
  /\ n \in 1..Len(processes[p].stdout)
  /\ j < Len(processes[p].stdout[n])
  /\ Deliver(p, Chunk(processes[p].stdout, n, j),
             readData(elfParser, Chunk(processes[p].stdout, n, j).data))

\* the listener of gdbProcess.stderr: readError only logs
StderrData(p) ==
  /\ processes[p].state = "running"
  /\ last' = [op |-> "readError", process |-> p, steps |-> <<>>, cmds |-> <<>>]
  /\ UNCHANGED <<elfParser, processes, calls, results, progress, received, treated>>

\* process p ends without a quit command; the output it had not yet
\* delivered is lost
Killed(p) ==
  /\ processes[p].state = "running"
  /\ processes' = [processes EXCEPT ![p].state = "exited", ![p].stdout = <<>>]
  /\ UNCHANGED <<elfParser, calls, results, progress, received, treated, last>>

\* the listener of "close" of process p: the process has ended and all its
\* output was read
Close(p) ==
  /\ processes[p].state = "exited"
  /\ processes[p].stdout = <<>>
  /\ processes' = [processes EXCEPT ![p].state = "closed"]
  /\ results' = Append(results, [callback |-> elfParser.callback,
                                 variablesInfo |-> sendVariablesInfoToClient(elfParser),
                                 process |-> p])
  /\ last' = [op |-> "close", process |-> p, steps |-> <<>>, cmds |-> <<>>]
  /\ UNCHANGED <<elfParser, calls, progress, received, treated>>

\* the client makes at most MaxCalls calls, and a chunk of output holds all
\* the replies that are pending
Next ==
  \/ /\ Len(calls) < MaxCalls
     /\ \E target \in 0..Len(Targets), expandTableElements \in BOOLEAN,
           withProgress \in BOOLEAN :
          ReadElf(target, expandTableElements, withProgress)
  \/ \E p \in 1..Len(processes) : StdoutData(p, Len(processes[p].stdout), 0)
  \/ \E p \in 1..Len(processes) : StderrData(p)
  \/ \E p \in 1..Len(processes) : Killed(p)
  \/ \E p \in 1..Len(processes) : Close(p)

Spec == Init /\ [][Next]_vars

\* the client makes one call, and a chunk of output holds at most MaxReplies
\* replies and ends at most MaxPartial characters before the end of a reply
NextChunks ==
  \/ /\ Len(calls) < 1
     /\ \E target \in 0..Len(Targets), expandTableElements \in BOOLEAN,
           withProgress \in BOOLEAN :
          ReadElf(target, expandTableElements, withProgress)
  \/ \E p \in 1..Len(processes), n \in 1..MaxReplies, j \in 0..MaxPartial :
       StdoutData(p, n, j)
  \/ \E p \in 1..Len(processes) : StderrData(p)
  \/ \E p \in 1..Len(processes) : Killed(p)
  \/ \E p \in 1..Len(processes) : Close(p)

SpecChunks == Init /\ [][NextChunks]_vars

\* the client makes one call on the target file of a C++ program, and a
\* chunk of output holds one reply
NextClasses ==
  \/ /\ Len(calls) < 1
     /\ \E target \in (Len(Targets) + 1)..Len(Programs), expandTableElements \in BOOLEAN,
           withProgress \in BOOLEAN :
          ReadElf(target, expandTableElements, withProgress)
  \/ \E p \in 1..Len(processes) : StdoutData(p, 1, 0)
  \/ \E p \in 1..Len(processes) : StderrData(p)
  \/ \E p \in 1..Len(processes) : Killed(p)
  \/ \E p \in 1..Len(processes) : Close(p)

SpecClasses == Init /\ [][NextClasses]_vars

(***************************************************************************)
(* One session on any of the programs with a gdb that answers every        *)
(* command and ends on quit only.  The event loop of the runtime delivers  *)
(* the output that is pending (index.ts, lines 238-240) and the close of a *)
(* process that has ended (lines 246-248): both are weakly fair.           *)
(***************************************************************************)
\* the listener of gdbProcess.stdout gets a chunk of at most MaxReplies replies
StdoutNext == \E p \in 1..Len(processes), n \in 1..MaxReplies : StdoutData(p, n, 0)

\* the listener of "close" is called
CloseNext == \E p \in 1..Len(processes) : Close(p)

NextAnswered ==
  \/ /\ Len(calls) < 1
     /\ \E target \in 0..Len(Programs), expandTableElements \in BOOLEAN,
           withProgress \in BOOLEAN :
          ReadElf(target, expandTableElements, withProgress)
  \/ StdoutNext
  \/ \E p \in 1..Len(processes) : StderrData(p)
  \/ CloseNext

\* what a step of StdoutNext does to received: data comes to readData
StdoutReceived ==
  \E p \in 1..Len(processes), n \in 1..MaxReplies :
    /\ processes[p].state # "closed"
    /\ n \in 1..Len(processes[p].stdout)
    /\ received' = received \o Chunk(processes[p].stdout, n, 0).data

\* what a step of CloseNext does to processes: the process is closed
ProcessClosed ==
  \E p \in 1..Len(processes) :
    /\ processes[p].state = "exited"
    /\ processes[p].stdout = <<>>
    /\ processes' = [processes EXCEPT ![p].state = "closed"]

\* the steps of StdoutNext are the steps that add to received and the steps of
\* CloseNext those that close a process, so the weak fairness of the two is
\* stated on received and on processes
SpecAnswered ==
  /\ Init /\ [][NextAnswered]_vars
  /\ WF_received(StdoutReceived)
  /\ WF_processes(ProcessClosed)

(***************************************************************************)
(* A session reply by reply, from the listing to the post-processing of    *)
(* the arrays, on a file that declares one scalar n and one array t of S   *)
(* elements, or one variable s of an aggregate type that has a static      *)
(* member of its own type.                                                 *)
(***************************************************************************)
\* the declared sizes are 1..MaxSize and the sizes around the limit of
\* postProcessArraysInfo, ARRAY_MAX - 1 .. ARRAY_MAX + MaxOver
MaxSize == 3

MaxOver == 2

\* the name of element i of the array
ElementName(i) == <<"t","[">> \o NatToString(i) \o <<"]">>

\* a target file that declares n and t[declared], both of the element type,
\* with the size gdb measures
ArrayTarget(element, declared) ==
  [listing |-> NullTarget.listing \o <<"\n">> \o FILE_MARKER_START \o <<"a">> \o FILE_MARKER_END
                 \o element.type \o <<" ","n",";","\n">>
                 \o element.type \o <<" ","t","[">> \o NatToString(declared) \o <<"]",";","\n">>,
   symbols |-> <<[expr |-> <<"n">>, type |-> element.type, size |-> element.size,
                  address |-> <<"0","x","1","0">>],
                 [expr |-> ElementName(0), type |-> element.type, size |-> element.size,
                  address |-> <<"0","x","2","0">>],
                 [expr |-> ElementName(declared - 1), type |-> element.type,
                  size |-> element.size, address |-> <<"0","x","2","0">>]>>,
   declared |-> declared]

\* gdb evaluates the member of a member down to MaxDepth levels
MaxDepth == 2

\* a target file that declares s of a type S, declared with the keyword
\* (class, struct or union), that has a static member inst of type S and a
\* member x: gdb describes every s.inst...inst as S again and every
\* s.inst...x as int; Path(depth) is s.inst...inst with depth times inst
RecursiveTarget(keyword) ==
  LET Path(depth) == <<"s">> \o Concat([i \in 1..depth |-> <<".","i","n","s","t">>])
      type == keyword \o <<" ","S"," ","{","\n">>
                \o (IF keyword = <<"c","l","a","s","s">> THEN <<" "," ","p","u","b","l","i","c",":","\n">> ELSE <<>>)
                \o <<" "," "," "," ","s","t","a","t","i","c"," ","S"," ","i","n","s","t",";","\n"," "," "," "," ","i","n","t"," ","x",";","\n","}">>
  IN  [listing |-> NullTarget.listing \o <<"\n">> \o FILE_MARKER_START \o <<"a">> \o FILE_MARKER_END
                     \o <<"S"," ","s",";","\n">>,
       symbols |-> [k \in 1..(2 * (MaxDepth + 1)) |->
                      IF k % 2 = 1
                      THEN [expr |-> Path(k \div 2), type |-> type, size |-> <<"4">>,
                            address |-> <<"0","x","1","0">>]
                      ELSE [expr |-> Path((k \div 2) - 1) \o <<".","x">>, type |-> <<"i","n","t">>,
                            size |-> <<"4">>, address |-> <<"0","x","1","0">>]],
       declared |-> 0]

\* the instance after readElf and the three replies that lead to the listing
Listing(expandTableElements) ==
  HandleResponse(
    HandleResponse(
      HandleResponse(readElf(NewElfParser, TRUE, 1, expandTableElements, 0, 1).this,
                     GdbBanner \o GDB_PROMPT).this,
      GDB_PROMPT).this,
    GDB_PROMPT).this

InitReplies ==
  /\ \E expandTableElements \in BOOLEAN : elfParser = Listing(expandTableElements)
  /\ \E target \in
          {ArrayTarget(element, declared) :
             element \in {[type |-> <<"c","h","a","r">>, size |-> <<"1">>],
                          [type |-> <<"i","n","t">>, size |-> <<"4">>]},
             declared \in (1..MaxSize) \cup ((ARRAY_MAX - 1)..(ARRAY_MAX + MaxOver))}
          \cup {RecursiveTarget(keyword) :
                  keyword \in {<<"c","l","a","s","s">>, <<"s","t","r","u","c","t">>, <<"u","n","i","o","n">>}} :
       processes = <<[target |-> target, state |-> "running", stdout |-> <<>>,
                      stdin |-> <<>>]>>
  /\ calls = <<>>
  /\ results = <<>>
  /\ progress = <<>>
  /\ received = <<>>
  /\ treated = <<>>
  /\ last = [op |-> "new", process |-> 1, steps |-> <<>>, cmds |-> <<>>]

\* readData for one reply, lines 324-376: the listing, the types, and the
\* sizes as long as a variable has none; at is the element the reply is
\* stored on, as storeAllElementsFromGdb finds it, and reply is the reply of
\* gdb to the first command it has not yet answered
Reply(informationType) ==
  LET at    == FindElement(elfParser.gdbVariablesInfo, informationType,
                           elfParser.currentFilenameIdx, elfParser.currentIdentifierIdx)
      reply == IF elfParser.currentState = State.GET_VARIABLES_INFO
               THEN GdbReply(processes[1].target, GDB_GET_INFO_VARIABLES)
               ELSE IF at.found
               THEN GdbReply(processes[1].target,
                             RequestCommand(elfParser.gdbVariablesInfo[at.f + 1]
                                              .identifiersList[at.i + 1],
                                            informationType)[1])
               ELSE GDB_PROMPT
  IN  /\ last.op # "postProcessArraysInfo"
      /\ \/ elfParser.currentState = State.GET_VARIABLES_INFO
            /\ informationType = InformationType.TYPE
         \/ elfParser.currentState = State.GET_TYPE /\ informationType = InformationType.TYPE
         \/ elfParser.currentState = State.GET_SIZE /\ informationType = InformationType.SIZE
            /\ at.found
      /\ elfParser' = HandleResponse(elfParser, reply).this
      /\ received' = received \o reply
      /\ treated' = treated \o reply
      /\ last' = [op |-> "reply", process |-> 1, steps |-> <<>>, cmds |-> <<>>]
      /\ UNCHANGED <<processes, calls, results, progress>>

\* readData, line 383: when every variable has a size, postProcessArraysInfo;
\* the requests for the addresses that follow at line 384 are left out
PostProcess ==
  /\ last.op = "reply"
  /\ elfParser.currentState = State.GET_SIZE
  /\ ~FindElement(elfParser.gdbVariablesInfo, InformationType.SIZE,
                  elfParser.currentFilenameIdx, elfParser.currentIdentifierIdx).found
  /\ elfParser' = postProcessArraysInfo(elfParser)
  /\ last' = [op |-> "postProcessArraysInfo", process |-> 1, steps |-> <<>>, cmds |-> <<>>]
  /\ UNCHANGED <<processes, calls, results, progress, received, treated>>

NextReplies ==
  \/ \E informationType \in {InformationType.TYPE, InformationType.SIZE} :
       Reply(informationType)
  \/ PostProcess

SpecReplies == InitReplies /\ [][NextReplies]_vars

(***************************************************************************)
(* computeTypeValue on its own: a type as gdb describes it, with storage   *)
(* class specifiers in front, and the reply of gdb to the size request.    *)
(***************************************************************************)
\* the measured sizes are 1..MaxMeasured
MaxMeasured == 8

\* at most MaxSpecifiers storage class specifiers in front of a type
MaxSpecifiers == 2

\* the spellings of the table of computeTypeValue, each with the base type
\* and the signedness it spells
StandardSpellings ==
  {[spelling |-> <<"u","n","s","i","g","n","e","d"," ","c","h","a","r">>, base |-> "char", unsigned |-> TRUE],
   [spelling |-> <<"_","B","o","o","l">>, base |-> "char", unsigned |-> TRUE],
   [spelling |-> <<"c","h","a","r">>, base |-> "char", unsigned |-> FALSE],
   [spelling |-> <<"s","i","g","n","e","d"," ","c","h","a","r">>, base |-> "char", unsigned |-> FALSE],
   [spelling |-> <<"u","n","s","i","g","n","e","d"," ","s","h","o","r","t">>, base |-> "short", unsigned |-> TRUE],
   [spelling |-> <<"u","n","s","i","g","n","e","d"," ","s","h","o","r","t"," ","i","n","t">>, base |-> "short", unsigned |-> TRUE],
   [spelling |-> <<"s","h","o","r","t"," ","u","n","s","i","g","n","e","d"," ","i","n","t">>, base |-> "short", unsigned |-> TRUE],
   [spelling |-> <<"s","h","o","r","t">>, base |-> "short", unsigned |-> FALSE],
   [spelling |-> <<"s","h","o","r","t"," ","i","n","t">>, base |-> "short", unsigned |-> FALSE],
   [spelling |-> <<"s","i","g","n","e","d"," ","s","h","o","r","t">>, base |-> "short", unsigned |-> FALSE],
   [spelling |-> <<"s","i","g","n","e","d"," ","s","h","o","r","t"," ","i","n","t">>, base |-> "short", unsigned |-> FALSE],
   [spelling |-> <<"s","h","o","r","t"," ","s","i","g","n","e","d"," ","i","n","t">>, base |-> "short", unsigned |-> FALSE],
   [spelling |-> <<"u","n","s","i","g","n","e","d"," ","i","n","t">>, base |-> "int", unsigned |-> TRUE],
   [spelling |-> <<"i","n","t">>, base |-> "int", unsigned |-> FALSE],
   [spelling |-> <<"s","i","g","n","e","d"," ","i","n","t">>, base |-> "int", unsigned |-> FALSE],
   [spelling |-> <<"u","n","s","i","g","n","e","d"," ","l","o","n","g">>, base |-> "long", unsigned |-> TRUE],
   [spelling |-> <<"u","n","s","i","g","n","e","d"," ","l","o","n","g"," ","i","n","t">>, base |-> "long", unsigned |-> TRUE],
   [spelling |-> <<"l","o","n","g"," ","u","n","s","i","g","n","e","d"," ","i","n","t">>, base |-> "long", unsigned |-> TRUE],
   [spelling |-> <<"l","o","n","g">>, base |-> "long", unsigned |-> FALSE],
   [spelling |-> <<"l","o","n","g"," ","i","n","t">>, base |-> "long", unsigned |-> FALSE],
   [spelling |-> <<"s","i","g","n","e","d"," ","l","o","n","g">>, base |-> "long", unsigned |-> FALSE],
   [spelling |-> <<"s","i","g","n","e","d"," ","l","o","n","g"," ","i","n","t">>, base |-> "long", unsigned |-> FALSE],
   [spelling |-> <<"l","o","n","g"," ","s","i","g","n","e","d"," ","i","n","t">>, base |-> "long", unsigned |-> FALSE],
   [spelling |-> <<"u","n","s","i","g","n","e","d"," ","l","o","n","g"," ","l","o","n","g">>, base |-> "long long", unsigned |-> TRUE],
   [spelling |-> <<"u","n","s","i","g","n","e","d"," ","l","o","n","g"," ","l","o","n","g"," ","i","n","t">>, base |-> "long long", unsigned |-> TRUE],
   [spelling |-> <<"l","o","n","g"," ","l","o","n","g"," ","u","n","s","i","g","n","e","d"," ","i","n","t">>, base |-> "long long", unsigned |-> TRUE],
   [spelling |-> <<"l","o","n","g"," ","l","o","n","g">>, base |-> "long long", unsigned |-> FALSE],
   [spelling |-> <<"l","o","n","g"," ","l","o","n","g"," ","i","n","t">>, base |-> "long long", unsigned |-> FALSE],
   [spelling |-> <<"s","i","g","n","e","d"," ","l","o","n","g"," ","l","o","n","g">>, base |-> "long long", unsigned |-> FALSE],
   [spelling |-> <<"s","i","g","n","e","d"," ","l","o","n","g"," ","l","o","n","g"," ","i","n","t">>, base |-> "long long", unsigned |-> FALSE],
   [spelling |-> <<"l","o","n","g"," ","l","o","n","g"," ","s","i","g","n","e","d"," ","i","n","t">>, base |-> "long long", unsigned |-> FALSE],
   [spelling |-> <<"f","l","o","a","t">>, base |-> "float", unsigned |-> FALSE],
   [spelling |-> <<"d","o","u","b","l","e">>, base |-> "double", unsigned |-> FALSE],
   [spelling |-> <<"l","o","n","g"," ","d","o","u","b","l","e">>, base |-> "double", unsigned |-> FALSE]}

\* leaf types with a "*": pointers to several types, as gdb describes them
PointerSpellings ==
  {[spelling |-> <<"c","h","a","r"," ","*">>, base |-> "pointer", unsigned |-> TRUE],
   [spelling |-> <<"u","n","s","i","g","n","e","d"," ","c","h","a","r"," ","*","*">>, base |-> "pointer", unsigned |-> TRUE],
   [spelling |-> <<"l","o","n","g"," ","l","o","n","g"," ","*">>, base |-> "pointer", unsigned |-> TRUE],
   [spelling |-> <<"d","o","u","b","l","e"," ","*">>, base |-> "pointer", unsigned |-> TRUE],
   [spelling |-> <<"e","n","u","m"," ","E"," ","*">>, base |-> "pointer", unsigned |-> TRUE],
   [spelling |-> <<"s","t","r","u","c","t"," ","S"," ","*">>, base |-> "pointer", unsigned |-> TRUE],
   [spelling |-> <<"v","o","i","d"," ","(","*",")","(","i","n","t",")">>, base |-> "pointer", unsigned |-> TRUE],
   [spelling |-> <<"c","h","a","r"," ","*"," ","c","o","n","s","t">>, base |-> "pointer", unsigned |-> TRUE]}

\* types that are no pointer, no enum and no spelling of the table: bool (the
\* table has _Bool), spellings in another order or another case, an array, a
\* type name, an aggregate, a specifier that is not in front, no type at all
OtherSpellings ==
  {[spelling |-> <<"b","o","o","l">>, base |-> "other", unsigned |-> FALSE],
   [spelling |-> <<"u","n","s","i","g","n","e","d">>, base |-> "other", unsigned |-> FALSE],
   [spelling |-> <<"l","o","n","g"," ","u","n","s","i","g","n","e","d">>, base |-> "other", unsigned |-> FALSE],
   [spelling |-> <<"I","n","t">>, base |-> "other", unsigned |-> FALSE],
   [spelling |-> <<"i","n","t"," ","[","4","]">>, base |-> "other", unsigned |-> FALSE],
   [spelling |-> <<"u","i","n","t","8","_","t">>, base |-> "other", unsigned |-> FALSE],
   [spelling |-> <<"w","c","h","a","r","_","t">>, base |-> "other", unsigned |-> FALSE],
   [spelling |-> <<"u","n","s","i","g","n","e","d"," ","c","o","n","s","t"," ","i","n","t">>, base |-> "other", unsigned |-> FALSE],
   [spelling |-> <<"s","t","r","u","c","t"," ","S"," ","{","\n"," "," "," "," ","i","n","t"," ","m",";","\n","}">>, base |-> "other", unsigned |-> FALSE],
   [spelling |-> <<"u","n","i","o","n"," ","U"," ","{",".",".",".","}">>, base |-> "other", unsigned |-> FALSE],
   [spelling |-> <<"E","n","u","m">>, base |-> "other", unsigned |-> FALSE],
   [spelling |-> <<>>, base |-> "other", unsigned |-> FALSE]}

\* the enumerated types: the test of computeTypeValue is a prefix "enum"
EnumSpellings ==
  {[spelling |-> <<"e","n","u","m"," ","E">>, base |-> "enum", unsigned |-> FALSE],
   [spelling |-> <<"e","n","u","m"," ","{","A",","," ","B","}">>, base |-> "enum", unsigned |-> FALSE],
   [spelling |-> <<"e","n","u","m","e","r","a","t","i","o","n","_","t">>, base |-> "enum", unsigned |-> FALSE]}

\* the storage class specifiers removeStorageClassSpecifier knows
Specifiers == {<<"e","x","t","e","r","n"," ">>, <<"s","t","a","t","i","c"," ">>, <<"v","o","l","a","t","i","l","e"," ">>, <<"c","o","n","s","t"," ">>}

\* gdb has described a type, a spelling after up to MaxSpecifiers specifiers,
\* and measured a size
InitTypes ==
  /\ elfParser = NewElfParser
  /\ processes = <<>>
  /\ calls = <<>>
  /\ results = <<>>
  /\ progress = <<>>
  /\ received = <<>>
  /\ treated = <<>>
  /\ \E described \in StandardSpellings \cup PointerSpellings \cup OtherSpellings \cup EnumSpellings,
        measured \in 1..MaxMeasured, n \in 0..MaxSpecifiers :
       \E specifiers \in [1..n -> Specifiers] :
         last = [op |-> "ptype", described |-> described, measured |-> measured,
                 expr |-> Concat(specifiers) \o described.spelling,
                 size |-> <<"$","1"," ","="," ">> \o NatToString(measured),
                 typeValue |-> None]

\* storeAllElementsFromGdb, lines 585-588: computeTypeValue for the type and the
\* reply to the size request
ComputeTypeValue ==
  /\ last.op = "ptype"
  /\ last' = [last EXCEPT !.op = "computeTypeValue",
                          !.typeValue = Some(computeTypeValue(last.expr, last.size))]
  /\ UNCHANGED <<elfParser, processes, calls, results, progress, received, treated>>

SpecTypes == InitTypes /\ [][ComputeTypeValue]_vars

(***************************************************************************)
(* buildVarList on its own: a block of declarations as gdb prints them for *)
(* the members of a structure, the root identifier and the option.         *)
(***************************************************************************)
\* a block has at most MaxDeclarations declarations
MaxDeclarations == 3

\* the blocks of a declaration are nested at most MaxNesting deep
MaxNesting == 2

\* a declaration without a block: its text, the name it declares, its kind
\* and, for an array, the number of its elements
Declaration(text, name, kind, size) == [text |-> text, name |-> name, kind |-> kind, size |-> size]

RECURSIVE Body(_)
\* the body of a structure with blocks nested depth deep: the inner structure
\* as member i and the member a, and for the structure of depth 1 a matrix
\* and a bit field instead of the inner structure
Body(depth) ==
  <<"{","\n">>
    \o (IF depth > 1 THEN <<" ","s","t","r","u","c","t"," ">> \o Body(depth - 1) \o <<" ","i",";","\n">>
        ELSE <<" ","i","n","t"," ","w","[","2","]","[","2","]",";","\n"," ","i","n","t"," ","u"," ",":"," ","2",";","\n">>)
    \o <<" ","i","n","t"," ","a",";","\n","}">>

\* the declarations of a block: variables, pointers, arrays, arrays of more
\* than one dimension, bit fields, and structures with a body, of which the
\* last has no closing brace
Declarations ==
  {Declaration(<<"i","n","t"," ","x">>, <<"x">>, "plain", 0),
   Declaration(<<"s","t","a","t","i","c"," ","u","n","s","i","g","n","e","d"," ","c","h","a","r"," ","c">>, <<"c">>, "plain", 0),
   Declaration(<<"c","h","a","r"," ","*","p">>, <<"p">>, "pointer", 0),
   Declaration(<<"c","h","a","r"," ","*"," ","c","o","n","s","t"," ","q">>, <<"q">>, "pointer", 0),
   Declaration(<<"v","o","i","d"," ","(","*","f",")","(","i","n","t",")">>, <<"f">>, "pointer", 0),
   Declaration(<<"i","n","t"," ","t","[","3","]">>, <<"t">>, "array", 3),
   Declaration(<<"c","h","a","r"," ","*","n","[","2","]">>, <<"n">>, "array", 2),
   Declaration(<<"i","n","t"," ","m","[","2","]","[","2","]">>, <<"m">>, "matrix", 0),
   Declaration(<<"u","n","s","i","g","n","e","d"," ","i","n","t"," ","b"," ",":"," ","3">>, <<"b">>, "bit field", 0)}
  \cup {Declaration(<<"s","t","r","u","c","t"," ">> \o Body(depth) \o <<" ","s">> \o NatToString(depth),
                    <<"s">> \o NatToString(depth), "block", 0) : depth \in 1..MaxNesting}
  \cup {Declaration(<<"u","n","i","o","n"," ","{","\n"," ","i","n","t"," ","a",";","\n"," ","s","t","r","u","c","t"," ","{","\n"," ","i","n","t"," ","e",";","\n"," ","i","n","t"," ","k">>, <<"k">>, "open", 0)}

\* the text of a block of declarations
FileBlock(declarations) ==
  <<"\n">> \o Concat([k \in 1..Len(declarations) |-> <<" ">> \o declarations[k].text \o <<";","\n">>])

\* gdb has printed a block of declarations
InitBlocks ==
  /\ elfParser = NewElfParser
  /\ processes = <<>>
  /\ calls = <<>>
  /\ results = <<>>
  /\ progress = <<>>
  /\ received = <<>>
  /\ treated = <<>>
  /\ \E n \in 1..MaxDeclarations, rootIdentifier \in {<<>>, <<"s",".">>}, expandTableElements \in BOOLEAN :
       \E declarations \in [1..n -> Declarations] :
         last = [op |-> "block", declarations |-> declarations,
                 fileBlock |-> FileBlock(declarations),
                 rootIdentifier |-> rootIdentifier,
                 expandTableElements |-> expandTableElements,
                 variablesList |-> None]

\* parseGdbVariablesInfo, line 111, and extractType, line 407: buildVarList
\* for the block, the root identifier and the option
BuildVarList ==
  /\ last.op = "block"
  /\ last' = [last EXCEPT !.op = "buildVarList",
                          !.variablesList = Some(buildVarList(last.fileBlock, last.rootIdentifier,
                                                              last.expandTableElements))]
  /\ UNCHANGED <<elfParser, processes, calls, results, progress, received, treated>>

SpecBlocks == InitBlocks /\ [][BuildVarList]_vars

(***************************************************************************)
(* The properties.  A call is a number c of calls, its callback is the     *)
(* callback number c, and the process it spawned is calls[c].gdbProcess.   *)
(***************************************************************************)
\* the calls that returned ELFPARSER_OK
Accepted == {c \in 1..Len(calls) : calls[c].status = Status.ELFPARSER_OK}

\* the invocations of the result callback that was passed to call c
Invocations(c) == {k \in 1..Len(results) : results[k].callback = c}

\* the accepted calls whose process has not closed: their sessions are in
\* flight, and their results are not yet delivered
InFlight == {c \in Accepted : processes[calls[c].gdbProcess].state # "closed"}

\* the step is a call of readElf
IsCall == Len(calls') = Len(calls) + 1

\* the call of the step
TheCall == calls'[Len(calls')]

\* C1 as stated: for every call that returned OK, the callback passed to that
\* call is invoked at most once, only by the close of the process the call
\* spawned, and it has been invoked once when that process has closed,
\* whatever calls were made later.
C1_OwnCallbackOnce ==
  \A c \in Accepted :
    /\ Cardinality(Invocations(c)) <= 1
    /\ \A k \in Invocations(c) : results[k].process = calls[c].gdbProcess
    /\ processes[calls[c].gdbProcess].state = "closed" => Cardinality(Invocations(c)) = 1

\* C2: a call of readElf for a file that does not exist returns
\* ELFPARSER_ELFFILENAME_NOT_FOUND, invokes the callback of the call once with
\* an empty list before it returns, spawns no process and leaves
\* currentState (and every field but the three stored arguments) unchanged.
C2_MissingFile ==
  [][(IsCall /\ ~TheCall.exists) =>
       /\ TheCall.status = Status.ELFPARSER_ELFFILENAME_NOT_FOUND
       /\ results' = Append(results, [callback |-> Len(calls'), variablesInfo |-> <<>>,
                                      process |-> 0])
       /\ processes' = processes
       /\ TheCall.gdbProcess = 0
       /\ elfParser'.currentState = elfParser.currentState
       /\ elfParser' = [elfParser EXCEPT !.callback = elfParser'.callback,
                                         !.expandTableElements = elfParser'.expandTableElements,
                                         !.progressCallback = elfParser'.progressCallback]]_vars

\* C2, its case: a session is in flight and the last call was for a file that
\* does not exist
C2_Witness ==
  /\ last.op = "readElf"
  /\ ~calls[Len(calls)].exists
  /\ InFlight # {}
  /\ elfParser.currentState = State.GET_TYPE

\* C3 as stated: a call of readElf for a file that exists, made while the
\* result of an accepted call is not yet delivered, returns
\* ELFPARSER_PARSING_ONGOING and spawns no process.
C3_BusyRejected ==
  [][(IsCall /\ TheCall.exists /\ InFlight # {}) =>
       /\ TheCall.status = Status.ELFPARSER_PARSING_ONGOING
       /\ processes' = processes]_vars

\* C4 as stated: a rejected call of readElf made while a session is in flight
\* leaves the stored callback, flag and progress callback, the state, the
\* buffer, the cursor and the collection unchanged.
C4_RejectedCallChangesNothing ==
  [][(IsCall /\ TheCall.status # Status.ELFPARSER_OK /\ InFlight # {}) =>
       elfParser' = elfParser]_vars

\* C5 as stated: at most one process spawned by the instance has not yet
\* closed, that is terminated and delivered its result.
C5_OneSession ==
  Cardinality({p \in 1..Len(processes) : processes[p].state # "closed"}) <= 1

\* the edges of the state machine that C6 lists
ListedEdges ==
  {<<State.IDLE, State.START_GDB>>, <<State.START_GDB, State.SET_METHODS_OFF>>,
   <<State.SET_METHODS_OFF, State.SET_TYPEDEFS_OFF>>,
   <<State.SET_TYPEDEFS_OFF, State.GET_VARIABLES_INFO>>,
   <<State.GET_VARIABLES_INFO, State.GET_TYPE>>, <<State.GET_TYPE, State.GET_TYPE>>,
   <<State.GET_TYPE, State.GET_SIZE>>, <<State.GET_SIZE, State.GET_ADDRESS>>,
   <<State.GET_ADDRESS, State.IDLE>>}

\* the edge readData takes when the listing holds no variable
EmptyListingEdge == <<State.GET_VARIABLES_INFO, State.IDLE>>

\* a complete reply: it ends with the prompt and holds it nowhere else
IsFrame(gdbResponse) ==
  IndexOf(gdbResponse, GDB_PROMPT) = Len(gdbResponse) - Len(GDB_PROMPT)

\* the changes of currentState in the steps of the last handler are in edges,
\* those out of another state than IDLE were taken for one complete reply,
\* and currentState changes in no other way
StateChangesIn(edges) ==
  /\ \A k \in 1..Len(last.steps) :
       LET step == last.steps[k]
       IN  /\ step.from # step.to => <<step.from, step.to>> \in edges
           /\ (step.from # step.to /\ step.from # State.IDLE) =>
                 step.gdbResponse # None /\ IsFrame(Val(step.gdbResponse))
           /\ k < Len(last.steps) => step.to = last.steps[k + 1].from
  /\ last.steps # <<>> => last.steps[Len(last.steps)].to = elfParser.currentState

\* currentState changes only in the steps of the handler of the step
StateChangesInSteps ==
  elfParser'.currentState # elfParser.currentState =>
    /\ last'.steps # <<>>
    /\ last'.steps[1].from = elfParser.currentState

\* C6 as stated: every change of currentState is one of the listed edges, and
\* every edge out of another state than IDLE is taken for one complete reply.
C6_ListedEdgesOnly == [](StateChangesIn(ListedEdges)) /\ [][StateChangesInSteps]_vars

\* C6, amended: every change of currentState is one of the listed edges or the
\* edge GET_VARIABLES_INFO -> IDLE of an empty listing, and every edge out of
\* another state than IDLE is taken for one complete reply.
C6_Edges ==
  [](StateChangesIn(ListedEdges \cup {EmptyListingEdge})) /\ [][StateChangesInSteps]_vars

\* C6, its case: readData took the edge of the empty listing, for a reply
\* whose first part was in the buffer
C6_Witness ==
  /\ last.op = "readData"
  /\ Len(last.steps) = 1
  /\ <<last.steps[1].from, last.steps[1].to>> = EmptyListingEdge
  /\ Len(treated) = Len(received)
  /\ elfParser.gdbVariablesInfo = <<>>

\* C7: framing loses and duplicates nothing: the replies treated so far
\* followed by dataBuffer are the chunks received so far; every reply treated
\* ends with the prompt and holds it nowhere else; and when readData returns,
\* dataBuffer holds no complete reply.
C7_Framing ==
  /\ treated \o elfParser.dataBuffer = received
  /\ \A k \in 1..Len(last.steps) :
       last.steps[k].gdbResponse # None => IsFrame(Val(last.steps[k].gdbResponse))
  /\ last.op = "readData" => ~Includes(elfParser.dataBuffer, GDB_PROMPT)

\* C7, its case: readData treated a reply and keeps the first part of the next
\* one, cut inside the prompt, in dataBuffer
C7_Witness ==
  /\ last.op = "readData"
  /\ last.steps # <<>>
  /\ elfParser.dataBuffer # <<>>
  /\ Last(elfParser.dataBuffer) = ")"

\* C8 as stated: every entry of every list passed to the result callback has
\* a non-empty address and a type value in 1..10, never -1.
C8_RecognizedTypesOnly ==
  \A k \in 1..Len(results) :
    \A i \in 1..Len(results[k].variablesInfo) :
      /\ results[k].variablesInfo[i].address # <<>>
      /\ results[k].variablesInfo[i].type \in 1..10

\* of two consecutive entries of every list passed to the result callback,
\* the first name compares less than the second, or, when not strict,
\* compares equal to it
SortedByName(strict) ==
  \A k \in 1..Len(results) :
    \A i \in 1..(Len(results[k].variablesInfo) - 1) :
      localeCompare(results[k].variablesInfo[i].name,
                    results[k].variablesInfo[i + 1].name) < (IF strict THEN 0 ELSE 1)

\* C9 as stated: every list passed to the result callback is sorted strictly
\* by name, so that no name occurs twice.
C9_StrictlySorted == SortedByName(TRUE)

\* C9, amended: every list passed to the result callback is sorted by name:
\* of two consecutive entries the first name does not compare greater than
\* the second; a name that two file groups declare occurs twice.
C9_Sorted == SortedByName(FALSE)

\* C9, its case: a list with the same name in two consecutive entries, after
\* entries of other names that the collection holds in another order
C9_Witness ==
  \E k \in 1..Len(results) :
    \E i \in 3..(Len(results[k].variablesInfo) - 1) :
      /\ results[k].variablesInfo[i].name = results[k].variablesInfo[i + 1].name
      /\ results[k].variablesInfo[i - 1].name # results[k].variablesInfo[i].name
      /\ results[k].variablesInfo[i - 2].name # results[k].variablesInfo[i - 1].name
      /\ results[k].process # 0

\* call c was accepted and its session went to its end: quit was written to
\* the process and the close of the process delivered the result number k
Completed(c, k) ==
  /\ c \in Accepted
  /\ k \in 1..Len(results)
  /\ results[k].process = calls[c].gdbProcess
  /\ processes[calls[c].gdbProcess].stdin # <<>>
  /\ Last(processes[calls[c].gdbProcess].stdin) = GDB_QUIT

\* calls c and d are two calls in sequence for the same file with the same
\* flag: d was made after result k, of c, was delivered
InSequence(c, d, k) ==
  /\ c < d
  /\ d \in Accepted
  /\ k <= calls[d].fired
  /\ processes[calls[c].gdbProcess].target = processes[calls[d].gdbProcess].target
  /\ calls[c].expandTableElements = calls[d].expandTableElements

\* no call was made between call c and the delivery of its result number k
Undisturbed(c, k) == \A e \in (c + 1)..Len(calls) : k <= calls[e].fired

\* C10: two sessions in sequence for the same file with the same flag, each
\* gone to its end with no call made during it, deliver the same list.
C10_Idempotent ==
  \A c, d \in 1..Len(calls) :
    \A k, l \in 1..Len(results) :
      (/\ Completed(c, k) /\ Undisturbed(c, k)
       /\ Completed(d, l) /\ Undisturbed(d, l)
       /\ InSequence(c, d, k)) =>
         results[k].variablesInfo = results[l].variablesInfo

\* C10, its case: two sessions in sequence for the file with variables, with
\* the arrays expanded, each gone to its end
C10_Witness ==
  \E c, d \in 1..Len(calls) :
    \E k, l \in 1..Len(results) :
      /\ Completed(c, k) /\ Undisturbed(c, k)
      /\ Completed(d, l) /\ Undisturbed(d, l)
      /\ InSequence(c, d, k)
      /\ calls[c].expandTableElements
      /\ Len(results[l].variablesInfo) > 2

(***************************************************************************)
(* The arrays (C11 to C13), under SpecReplies.                             *)
(***************************************************************************)
\* the size S of the declaration t[S]
Declared == processes[1].target.declared

\* the entries of the collection for the array t
ArrayEntries ==
  IF elfParser.gdbVariablesInfo = <<>> THEN <<>>
  ELSE SelectSeq(elfParser.gdbVariablesInfo[1].identifiersList,
                 LAMBDA e : StartsWith(e.identifier, <<"t","[">>))

\* the entries are exactly one for each index of the set, and no other
Named(entries, indices) ==
  /\ Len(entries) = Cardinality(indices)
  /\ {entries[k].identifier : k \in 1..Len(entries)} = {ElementName(i) : i \in indices}

EntriesAre(indices) == Named(ArrayEntries, indices)

\* the entries all have the storage kind of the first
OfOneKind(entries) ==
  \A k \in 1..Len(entries) :
    entries[k].typeValue = entries[1].typeValue /\ entries[k].typeValue # None

SameKind == OfOneKind(ArrayEntries)

\* the entries have an entry for the index
HasEntry(entries, index) ==
  \E k \in 1..Len(entries) : entries[k].identifier = ElementName(index)

\* postProcessArraysInfo has run on the file with the array, with expansion
\* enabled or disabled
PostProcessed(expandTableElements) ==
  /\ Declared >= 1
  /\ last.op = "postProcessArraysInfo"
  /\ elfParser.expandTableElements = expandTableElements

\* C11 as stated: with expansion enabled, the array of declared size S has
\* exactly the min(S, 10000) entries t[0] .. t[min(S, 10000) - 1], all of the
\* same storage kind, and none beyond index 9999.
C11_FirstTenThousand ==
  PostProcessed(TRUE) => EntriesAre(0..(Min(Declared, ARRAY_MAX) - 1)) /\ SameKind

\* C11, amended: with expansion enabled, the array of declared size S has the
\* entries t[0] .. t[S-1] when S is at most 10001, and the entries
\* t[0] .. t[9999] and t[S-1] when S is larger; all of the same storage kind.
C11_FirstAndLast ==
  PostProcessed(TRUE) =>
    /\ Declared <= ARRAY_MAX + 1 => EntriesAre(0..(Declared - 1))
    /\ Declared > ARRAY_MAX + 1 => EntriesAre((0..(ARRAY_MAX - 1)) \cup {Declared - 1})
    /\ SameKind

\* an array of more than 10001 elements was expanded: its last element is an
\* entry, beyond index 9999
C11_Witness ==
  /\ PostProcessed(TRUE)
  /\ Declared > ARRAY_MAX + 1
  /\ HasEntry(ArrayEntries, Declared - 1)

\* C12: with expansion enabled, the array of declared size S has exactly
\* min(S-1, 10000) + 1 entries: t[0] .. t[min(S-1, 10000) - 1] and the last
\* element t[S-1]; an array of more than 10001 elements has 10001 entries.
C12_CountWithLast ==
  PostProcessed(TRUE) =>
    /\ Len(ArrayEntries) = Min(Declared - 1, ARRAY_MAX) + 1
    /\ EntriesAre((0..(Min(Declared - 1, ARRAY_MAX) - 1)) \cup {Declared - 1})
    /\ Declared > ARRAY_MAX + 1 => Len(ArrayEntries) = ARRAY_MAX + 1

\* an array of more than 10001 elements was expanded to 10001 entries
C12_Witness ==
  /\ PostProcessed(TRUE)
  /\ Declared > ARRAY_MAX + 1
  /\ Len(ArrayEntries) = ARRAY_MAX + 1

\* the step of postProcessArraysInfo leaves the collection as it is
PostProcessUnchanged ==
  last'.op = "postProcessArraysInfo" /\ last.op # "postProcessArraysInfo"
    => elfParser'.gdbVariablesInfo = elfParser.gdbVariablesInfo

\* C13: with expansion disabled, the array declaration contributes exactly one
\* entry, named t[0], from the listing on, and the step of
\* postProcessArraysInfo leaves the collection of variables unchanged.
C13_NotExpanded ==
  /\ [](/\ Declared >= 1
        /\ ~elfParser.expandTableElements
        /\ elfParser.currentState # State.GET_VARIABLES_INFO
        => EntriesAre({0}))
  /\ [][~elfParser.expandTableElements => PostProcessUnchanged]_vars

\* postProcessArraysInfo has run with expansion disabled on an array of more
\* than one element, which has the one entry t[0]
C13_Witness ==
  /\ PostProcessed(FALSE)
  /\ Declared > 1
  /\ Len(ArrayEntries) = 1
  /\ ArrayEntries[1].identifier = ElementName(0)

(***************************************************************************)
(* The cycle guard (C14), under SpecReplies.                               *)
(***************************************************************************)
\* the identifiers of the collection and of the staging list
Identifiers ==
  {e.identifier : e \in {AllElements(elfParser.gdbVariablesInfo)[k] :
                           k \in 1..Len(AllElements(elfParser.gdbVariablesInfo))}}
    \cup {e.identifier : e \in {AllElements(elfParser.newGdbVariablesInfo)[k] :
                                  k \in 1..Len(AllElements(elfParser.newGdbVariablesInfo))}}

\* the member inst of s, of the type of s, is expanded: a member of s.inst is
\* in the collections
Unfolded ==
  \E identifier \in Identifiers : StartsWith(identifier, <<"s",".","i","n","s","t",".">>)

\* C14: for a class, a struct or a union S with a member inst of the type S,
\* the recursive occurrence s.inst is not expanded: no member of s.inst is
\* ever discovered, so that the pass after the expansion of s discovers
\* nothing.
C14_CycleGuard == Declared = 0 => ~Unfolded

(***************************************************************************)
(* The progress (C15), under SpecChunks: one session.                      *)
(***************************************************************************)
\* the value is an integer of 0..100
IsPercent(value) == ~value.nan /\ ~value.inf /\ value.val \in 0..100

\* C15: the values passed to the progress callback in a session are integers
\* of 0..100 and each is greater than the one before, for every cut of the
\* output of gdb into chunks.
C15_ProgressIncreasing ==
  \A i \in 1..Len(progress) :
    /\ IsPercent(progress[i].value)
    /\ i > 1 => progress[i - 1].value.val < progress[i].value.val

\* a session went to its end and a value between two phases was passed on
\* the way: the share of the replies counted in GET_SIZE or GET_ADDRESS
C15_Witness ==
  /\ \E i \in 1..Len(progress) : progress[i].value = Num(100)
  /\ \E i \in 1..Len(progress) :
       IsPercent(progress[i].value) /\ progress[i].value.val \notin {0, 10, 25, 50, 75, 100}
  /\ Len(progress) >= 6

(***************************************************************************)
(* The end of the process in the middle of a session (C16, C17).           *)
(***************************************************************************)
\* the elements of the collection that have an address and a storage kind
Complete(this) ==
  SelectSeq(AllElements(this.gdbVariablesInfo),
            LAMBDA e : e.address \notin {None, Some(<<>>)} /\ e.typeValue # None)

\* the list passed to the callback holds the elements (name and storage
\* kind), each as many times as the list of elements does
SameEntries(elements, variablesInfo) ==
  /\ Len(elements) = Len(variablesInfo)
  /\ \A k \in 1..Len(elements) :
       Cardinality({i \in 1..Len(elements) :
                      /\ elements[i].identifier = elements[k].identifier
                      /\ elements[i].typeValue = elements[k].typeValue})
         = Cardinality({i \in 1..Len(variablesInfo) :
                          /\ variablesInfo[i].name = elements[k].identifier
                          /\ variablesInfo[i].type = Val(elements[k].typeValue)})

\* the process of the session has closed while the session was not at its end
ClosedEarly ==
  /\ \E p \in 1..Len(processes) : processes[p].state # "closed" /\ processes'[p].state = "closed"
  /\ elfParser.currentState # State.IDLE

\* C16: when the process ends in a state before the end of the session, the
\* close of the process invokes the result callback once, with exactly the
\* entries of the collection that have an address and a storage kind at that
\* moment (possibly none).
C16_PartialResult ==
  [][ClosedEarly =>
       /\ Len(results') = Len(results) + 1
       /\ results'[Len(results')].callback = elfParser.callback
       /\ SameEntries(Complete(elfParser), results'[Len(results')].variablesInfo)]_vars

\* the process ended while the addresses were being stored: the callback got
\* some entries of the collection, and not all
C16_Witness ==
  /\ last.op = "close"
  /\ elfParser.currentState = State.GET_ADDRESS
  /\ results # <<>>
  /\ Len(results[Len(results)].variablesInfo) \in 1..(elfParser.numberOfVariables - 1)

\* the close of a process invokes the result callback
ResultInvoked ==
  \E p \in 1..Len(processes) : processes[p].state # "closed" /\ processes'[p].state = "closed"

\* C17: when the result callback of an accepted session has been invoked,
\* also after the process ended in the middle of a phase, the state of the
\* controller is IDLE (so that the next readElf on an existing file returns
\* ELFPARSER_OK).
C17_IdleAfterResult == [][ResultInvoked => elfParser'.currentState = State.IDLE]_vars

(***************************************************************************)
(* The listing without a file group (C18), under SpecChunks.               *)
(***************************************************************************)
\* the reply of process p to the listing command yields no file group
NoFileGroup(p) ==
  parseGdbVariablesInfo(GdbReply(Targets[processes[p].target], GDB_GET_INFO_VARIABLES),
                        elfParser.expandTableElements) = <<>>

\* the command asks for a type, a size or an address
IsQuery(command) ==
  \/ StartsWith(command, GDB_GET_TYPE_HEAD)
  \/ StartsWith(command, GDB_GET_SIZE_HEAD)
  \/ StartsWith(command, GDB_GET_ADDRESS_HEAD)

\* the last handler treated the reply to the listing command
ListingTreated(p) ==
  /\ last.op = "readData"
  /\ last.process = p
  /\ \E k \in 1..Len(last.steps) : last.steps[k].from = State.GET_VARIABLES_INFO

\* C18: when the reply to the listing command yields no file group, the
\* handler of that reply writes the quit command and nothing else and goes to
\* IDLE; no query for a type, a size or an address is ever written to the
\* process; readElf has returned ELFPARSER_OK; and the result callback gets
\* the empty list.
C18_EmptyListing ==
  \A p \in 1..Len(processes) :
    NoFileGroup(p) =>
      /\ \A c \in 1..Len(calls) : calls[c].gdbProcess = p => calls[c].status = Status.ELFPARSER_OK
      /\ \A i \in 1..Len(processes[p].stdin) : ~IsQuery(processes[p].stdin[i])
      /\ ListingTreated(p) => /\ last.cmds = <<GDB_QUIT>>
                              /\ last.steps[Len(last.steps)].to = State.IDLE
                              /\ elfParser.currentState = State.IDLE
      /\ \A k \in 1..Len(results) : results[k].process = p => results[k].variablesInfo = <<>>

\* the session on a file without a file group went to its end: quit was
\* written after the listing and the callback got the empty list
C18_Witness ==
  \E p \in 1..Len(processes) :
    /\ NoFileGroup(p)
    /\ processes[p].stdin # <<>>
    /\ processes[p].stdin[Len(processes[p].stdin)] = GDB_QUIT
    /\ \E k \in 1..Len(results) : results[k].process = p /\ results[k].variablesInfo = <<>>

(***************************************************************************)
(* The classification of the types (C19, C20), under SpecTypes.            *)
(***************************************************************************)
\* the storage kind of n bits, unsigned or signed
Bits(n, unsigned) ==
  IF n = 8 THEN (IF unsigned THEN TYPE_VALUE.UNSIGNED_8 ELSE TYPE_VALUE.SIGNED_8)
  ELSE IF n = 16 THEN (IF unsigned THEN TYPE_VALUE.UNSIGNED_16 ELSE TYPE_VALUE.SIGNED_16)
  ELSE IF n = 32 THEN (IF unsigned THEN TYPE_VALUE.UNSIGNED_32 ELSE TYPE_VALUE.SIGNED_32)
  ELSE (IF unsigned THEN TYPE_VALUE.UNSIGNED_64 ELSE TYPE_VALUE.SIGNED_64)

\* the classification table: the storage kind of a described type of a
\* measured size
Classified(described, measured) ==
  CASE described.base = "char" -> Bits(8, described.unsigned)
    [] described.base = "short" -> Bits(16, described.unsigned)
    [] described.base = "int" -> Bits(IF measured = 2 THEN 16 ELSE 32, described.unsigned)
    [] described.base = "long" -> Bits(32, described.unsigned)
    [] described.base = "long long" -> Bits(64, described.unsigned)
    [] described.base = "float" -> TYPE_VALUE.FLOAT
    [] described.base = "double" -> TYPE_VALUE.DOUBLE
    [] described.base = "pointer" ->
         Bits(IF measured = 1 THEN 8 ELSE IF measured = 4 THEN 32 ELSE 16, TRUE)

\* computeTypeValue was applied to a type of the set
Computed(spellings) == last.op = "computeTypeValue" /\ last.described \in spellings

\* C19: for every spelling of the table, after any storage class specifiers,
\* and every measured size, computeTypeValue gives the storage kind of the
\* table: 8 bits for the char spellings and _Bool, 16 bits for the short
\* spellings, 32 bits for the long spellings, 64 bits for the long long
\* spellings, FLOAT, DOUBLE, and for the int spellings 16 bits if the measured
\* size is 2 and 32 bits for every other size, unsigned or signed as spelled.
C19_Table ==
  Computed(StandardSpellings) =>
    last.typeValue = Some(Classified(last.described, last.measured))

\* computeTypeValue classified an int of size 2 after two specifiers
C19_Witness ==
  /\ Computed(StandardSpellings)
  /\ last.described.base = "int"
  /\ last.measured = 2
  /\ StartsWith(last.expr, <<"s","t","a","t","i","c"," ","c","o","n","s","t"," ">>)
  /\ last.typeValue = Some(TYPE_VALUE.SIGNED_16)

\* C20: for every leaf type with a "*", computeTypeValue gives UNSIGNED_8 for
\* the measured size 1, UNSIGNED_32 for the size 4 and UNSIGNED_16 for every
\* other size, whatever the type pointed to.
C20_Pointers ==
  Computed(PointerSpellings) =>
    last.typeValue = Some(IF last.measured = 1 THEN TYPE_VALUE.UNSIGNED_8
                          ELSE IF last.measured = 4 THEN TYPE_VALUE.UNSIGNED_32
                          ELSE TYPE_VALUE.UNSIGNED_16)

\* computeTypeValue classified a pointer to double of size 4
C20_Witness ==
  /\ Computed(PointerSpellings)
  /\ last.described.spelling = <<"d","o","u","b","l","e"," ","*">>
  /\ last.measured = 4
  /\ last.typeValue = Some(TYPE_VALUE.UNSIGNED_32)

(***************************************************************************)
(* The batches of requests and their replies (C21, C22), under             *)
(* SpecClasses, where readData is called with one reply at a time.         *)
(***************************************************************************)
\* the states in which a batch of requests is being answered
BatchStates == {State.GET_TYPE, State.GET_SIZE, State.GET_ADDRESS}

\* the commands that end a batch
StopCommands == {STOP_REQUEST_TYPE, STOP_REQUEST_SIZE, STOP_REQUEST_ADDRESS}

\* the information the replies are stored as in the current state
Asked ==
  IF elfParser.currentState = State.GET_TYPE THEN InformationType.TYPE
  ELSE IF elfParser.currentState = State.GET_SIZE THEN InformationType.SIZE
  ELSE InformationType.ADDRESS

\* the element the next reply is stored on, as storeAllElementsFromGdb finds it
Cursor ==
  FindElement(elfParser.gdbVariablesInfo, Asked, elfParser.currentFilenameIdx,
              elfParser.currentIdentifierIdx)

\* the command that the first reply the controller has not yet read answers:
\* gdb answers every command but quit with one reply, in order
Answered(process) ==
  process.stdin[(IF Last(process.stdin) = GDB_QUIT THEN Len(process.stdin) - 1
                 ELSE Len(process.stdin)) - Len(process.stdout) + 1]

\* a batch is being answered and a reply of process p is ready to be read
ReplyReady(p) ==
  /\ p = elfParser.gdbProcess
  /\ processes[p].stdout # <<>>
  /\ elfParser.currentState \in BatchStates

\* this step is a call of readData
ReadStep == received' # received

\* C21: in the states GET_TYPE, GET_SIZE and GET_ADDRESS, the reply that is
\* read next answers a query command exactly when storeAllElementsFromGdb
\* finds an element to store it on, and that element is the one whose query
\* command it answers
C21_ReplyCorrelation ==
  \A p \in 1..Len(processes) :
    ReplyReady(p) =>
      /\ Cursor.found <=> IsQuery(Answered(processes[p]))
      /\ Cursor.found =>
           RequestCommand(elfParser.gdbVariablesInfo[Cursor.f + 1].identifiersList[Cursor.i + 1],
                          Asked) = <<Answered(processes[p])>>

\* C22: a call of readData that writes commands while a batch is being
\* answered is reading the reply to the stop command of that batch, which is
\* the last command written, so that no other reply is outstanding
C22_BatchEndsOnStop ==
  [][(ReadStep /\ elfParser.currentState \in BatchStates /\ last'.cmds # <<>>)
       => /\ Answered(processes[last'.process]) \in StopCommands
          /\ Answered(processes[last'.process]) = Last(processes[last'.process].stdin)
          /\ Len(processes[last'.process].stdout) = 1]_vars

(***************************************************************************)
(* The entry an aggregate reply removes (C25, C26), under SpecClasses.     *)
(***************************************************************************)
\* this step is a call of readData that stores a type on the cursor element
TypeStep ==
  /\ ReadStep
  /\ elfParser.currentState = State.GET_TYPE
  /\ Cursor.found

\* the collection after this step is the collection before it without the
\* cursor element
CursorRemoved ==
  elfParser'.gdbVariablesInfo =
    [elfParser.gdbVariablesInfo EXCEPT ![Cursor.f + 1].identifiersList =
       RemoveAt(@, Cursor.i + 1)]

\* this step removes no element from the collection
NoneRemoved ==
  /\ Len(elfParser'.gdbVariablesInfo) = Len(elfParser.gdbVariablesInfo)
  /\ \A f \in 1..Len(elfParser.gdbVariablesInfo) :
       Len(elfParser'.gdbVariablesInfo[f].identifiersList)
         = Len(elfParser.gdbVariablesInfo[f].identifiersList)

\* an element of the collection is named as the root of another one
Orphaned(elements) ==
  \E j, k \in 1..Len(elements) :
    StartsWith(elements[k].identifier, elements[j].identifier \o <<".">>)

\* C25: a type reply that stages elements removes the cursor element from the
\* collection in the same step, and when all the types are known no element
\* of the collection is the root of another one
C25_NoOrphan ==
  /\ [](elfParser.currentState \in {State.GET_SIZE, State.GET_ADDRESS}
          => ~Orphaned(AllElements(elfParser.gdbVariablesInfo)))
  /\ [][(TypeStep /\ elfParser'.newGdbVariablesInfo # elfParser.newGdbVariablesInfo)
          => CursorRemoved]_vars

\* C26: a step that stores a type removes either nothing or the cursor
\* element, and nothing else
C26_OnlyCursorRemoved ==
  [][TypeStep => (NoneRemoved \/ CursorRemoved)]_vars

(***************************************************************************)
(* The base classes (C29), under SpecClasses, on class D of DerivedTarget. *)
(***************************************************************************)
\* the number of base classes of the class of s in the target file of
\* process p
BaseCount(p) ==
  IF \E n \in 1..MaxBases : Programs[processes[p].target] = DerivedTarget(n)
  THEN CHOOSE n \in 1..MaxBases : Programs[processes[p].target] = DerivedTarget(n)
  ELSE 0

\* the type query that names base class k
BaseQuery(k) == GDB_GET_TYPE_HEAD \o BaseName(k) \o GDB_GET_TYPE_TAIL

\* the elements of the list that stand for a base class
Sentinels(elements) == SelectSeq(elements, LAMBDA e : e.type # None)

\* this step stores the reply that describes the class of s
DerivedStep(p) ==
  /\ TypeStep
  /\ p = elfParser.gdbProcess
  /\ Answered(processes[p]) = GDB_GET_TYPE_HEAD \o <<"s">> \o GDB_GET_TYPE_TAIL

\* this step ends the pass in which the base classes were staged
SentinelsMerged ==
  /\ ReadStep
  /\ elfParser.currentState = State.GET_TYPE
  /\ ~Cursor.found
  /\ Sentinels(AllElements(elfParser.newGdbVariablesInfo)) # <<>>

\* C29: the reply that describes a class with n base classes stages n
\* elements named as the class variable with the types "?B1" .. "?Bn"; the
\* pass that follows writes one type query per base class, and when all the
\* types are known the collection holds the member of every base class under
\* the name of the variable
C29_BaseClasses ==
  /\ [](\A p \in 1..Len(processes) :
          (p = elfParser.gdbProcess
             /\ elfParser.currentState \in {State.GET_SIZE, State.GET_ADDRESS})
            => \A k \in 1..BaseCount(p) :
                 \E e \in 1..Len(AllElements(elfParser.gdbVariablesInfo)) :
                   AllElements(elfParser.gdbVariablesInfo)[e].identifier
                     = <<"s", ".", "b">> \o NatToString(k))
  /\ [][\A p \in 1..Len(processes) :
          /\ DerivedStep(p) =>
               Sentinels(AllElements(elfParser'.newGdbVariablesInfo))
                 = [k \in 1..BaseCount(p) |->
                      [NewElement(<<"s">>) EXCEPT !.type = Some(<<"?">> \o BaseName(k))]]
          /\ (SentinelsMerged /\ p = elfParser.gdbProcess) =>
               \A k \in 1..BaseCount(p) :
                 Cardinality({c \in 1..Len(last'.cmds) : last'.cmds[c] = BaseQuery(k)}) = 1]_vars

(***************************************************************************)
(* The pointers to aggregates (C27), under SpecClasses.                    *)
(***************************************************************************)
\* the type described by the reply that is read next, as extractType gets
\* it, without storage class
Described(p) ==
  removeStorageClassSpecifier(Trim(ReplyText(Head(processes[p].stdout), InformationType.TYPE)))

\* the type is a struct, a union or a class with a body that is closed
IsAggregate(tmpStr) ==
  /\ \/ StartsWith(tmpStr, <<"s","t","r","u","c","t"," ">>)
     \/ StartsWith(tmpStr, <<"u","n","i","o","n"," ">>)
     \/ StartsWith(tmpStr, <<"c","l","a","s","s"," ">>)
  /\ IndexOf(tmpStr, <<"{">>) # -1
  /\ getMatchingClosingBrace(tmpStr) # -1

\* the type is a pointer to an aggregate: a "*" follows the closing brace
IsAggregatePointer(tmpStr) ==
  /\ IsAggregate(tmpStr)
  /\ IndexOfFrom(tmpStr, <<"*">>, getMatchingClosingBrace(tmpStr) + 1) # -1

\* this step leaves the two collections as they are but for the type of the
\* cursor element, which becomes type
OnlyTyped(type) ==
  /\ elfParser'.newGdbVariablesInfo = elfParser.newGdbVariablesInfo
  /\ elfParser'.gdbVariablesInfo =
       [elfParser.gdbVariablesInfo
          EXCEPT ![Cursor.f + 1].identifiersList[Cursor.i + 1].type = Some(type)]

\* C27: a step that stores the reply describing a pointer to a struct, a
\* union or a class removes nothing, stages nothing and gives the cursor
\* element the described type, whatever its class hierarchy
C27_PointerToAggregate ==
  [][\A p \in 1..Len(processes) :
       (TypeStep /\ p = elfParser.gdbProcess /\ IsAggregatePointer(Described(p)))
         => OnlyTyped(Described(p))]_vars

(***************************************************************************)
(* The cycle guard of the classes (C28), under SpecClasses.                *)
(***************************************************************************)
\* the name of the class a type describes, between the keyword and the list
\* of base classes or the body
ClassName(tmpStr) ==
  Trim(Substring(tmpStr, 5,
                 IF IndexOf(tmpStr, <<" ",":"," ">>) = -1 THEN IndexOf(tmpStr, <<"{">>)
                 ELSE IndexOf(tmpStr, <<" ",":"," ">>)))

\* name is one of the names of the class hierarchy tag, which holds every
\* name after a "."
IsAncestor(tag, name) ==
  \E i \in 1..Len(tag) :
    /\ tag[i] = "."
    /\ MatchAt(tag, name, i)
    /\ (i + Len(name) = Len(tag) \/ tag[i + Len(name) + 1] = ".")

\* the class hierarchy tag of the cursor element ("" when it has none)
CursorTag ==
  LET element == elfParser.gdbVariablesInfo[Cursor.f + 1].identifiersList[Cursor.i + 1]
  IN  IF IsSome(element.classHierarchy) THEN Val(element.classHierarchy) ELSE <<>>

\* the cursor element stands for a base class
CursorIsSentinel ==
  elfParser.gdbVariablesInfo[Cursor.f + 1].identifiersList[Cursor.i + 1].type # None

\* the described type is a class that is not pointed to
IsClass(tmpStr) ==
  /\ StartsWith(tmpStr, <<"c","l","a","s","s"," ">>)
  /\ IsAggregate(tmpStr)
  /\ ~IsAggregatePointer(tmpStr)

\* the elements this step adds to the staging list
Staged ==
  LET before == AllElements(elfParser.newGdbVariablesInfo)
      after  == AllElements(elfParser'.newGdbVariablesInfo)
  IN  SubSeq(after, Len(before) + 1, Len(after))

\* C28: a step that stores the reply describing a class expands it unless
\* the name of the class is one of the names of the class hierarchy tag of
\* the cursor element, and the members staged for a base class carry the
\* names of the class of the variable and of the base class
C28_GuardByAncestor ==
  [][\A p \in 1..Len(processes) :
       (TypeStep /\ p = elfParser.gdbProcess /\ IsClass(Described(p)))
         => /\ (elfParser'.newGdbVariablesInfo = elfParser.newGdbVariablesInfo)
                 <=> IsAncestor(CursorTag, ClassName(Described(p)))
            /\ CursorIsSentinel =>
                 \A k \in 1..Len(Staged) :
                   Staged[k].classHierarchy
                     = Some(<<".">> \o Programs[processes[p].target].class
                              \o <<".">> \o ClassName(Described(p)))]_vars

(***************************************************************************)
(* The aggregate replies that are not decoded (C30), under SpecClasses.    *)
(***************************************************************************)
\* extractType does not decode the described type for an element with the
\* class hierarchy tag: a struct, a union or a class without a body, with a
\* body that is not closed, or a class named in the tag
Undecoded(tmpStr, tag) ==
  /\ \/ StartsWith(tmpStr, <<"s","t","r","u","c","t"," ">>)
     \/ StartsWith(tmpStr, <<"u","n","i","o","n"," ">>)
     \/ StartsWith(tmpStr, <<"c","l","a","s","s"," ">>)
  /\ \/ ~IsAggregate(tmpStr)
     \/ /\ StartsWith(tmpStr, <<"c","l","a","s","s"," ">>)
        /\ IsAncestor(tag, ClassName(tmpStr))

\* the names of the members that were left with the type "" (an element
\* that stands for a base class has no class hierarchy tag)
LeftUndecoded ==
  {e.identifier :
     e \in {AllElements(elfParser.gdbVariablesInfo)[k] :
              k \in {j \in 1..Len(AllElements(elfParser.gdbVariablesInfo)) :
                       /\ AllElements(elfParser.gdbVariablesInfo)[j].type = Some(<<>>)
                       /\ IsSome(AllElements(elfParser.gdbVariablesInfo)[j].classHierarchy)}}}

\* C30: a step that stores an aggregate reply extractType does not decode
\* gives the cursor element the type "" and changes nothing else, and the
\* result of a session that ran to its end holds no element that was left
\* with the type ""
C30_UndecodedDropped ==
  /\ [](\A r \in 1..Len(results) :
          (results[r].process # 0 /\ elfParser.currentState = State.IDLE)
            => \A k \in 1..Len(results[r].variablesInfo) :
                 results[r].variablesInfo[k].name \notin LeftUndecoded)
  /\ [][\A p \in 1..Len(processes) :
          (TypeStep /\ p = elfParser.gdbProcess /\ Undecoded(Described(p), CursorTag))
            => OnlyTyped(<<>>)]_vars

(***************************************************************************)
(* The place of postProcessArraysInfo in a session (C23), under            *)
(* SpecChunks.                                                             *)
(***************************************************************************)
\* the number of commands with the head that the controller wrote to its
\* gdb process
Written(head) ==
  Cardinality({c \in 1..Len(processes[elfParser.gdbProcess].stdin) :
                 StartsWith(processes[elfParser.gdbProcess].stdin[c], head)})

\* element 0 of the array the identifier names an element of
FirstOf(identifier) ==
  Substring(identifier, 0, LastIndexOf(identifier, <<"[">>) + 1) \o <<"0">>
    \o SubstringFrom(identifier, LastIndexOf(identifier, <<"]">>))

\* the arrays of the list are expanded: with an element of an array the list
\* holds element 0 of that array
ArraysExpanded(elements) ==
  \A k \in 1..Len(elements) :
    LastIndexOf(elements[k].identifier, <<"[">>) # -1
      => \E j \in 1..Len(elements) : elements[j].identifier = FirstOf(elements[k].identifier)

\* this call of readData went from GET_SIZE to GET_ADDRESS
SizesDone ==
  \E k \in 1..Len(last'.steps) :
    last'.steps[k].from = State.GET_SIZE /\ last'.steps[k].to = State.GET_ADDRESS

C24_TypeFixpoint ==
  elfParser.currentState \in {State.GET_SIZE, State.GET_ADDRESS}
    => /\ elfParser.newGdbVariablesInfo = <<>>
       /\ \A k \in 1..Len(AllElements(elfParser.gdbVariablesInfo)) :
            /\ AllElements(elfParser.gdbVariablesInfo)[k].type # None
            /\ CharAt(Val(AllElements(elfParser.gdbVariablesInfo)[k].type), 0) # "?"

\* the sizes are being asked after three passes of types: the class, its
\* member and its base class, and the member of the base class
C24_Witness ==
  /\ elfParser.currentState = State.GET_SIZE
  /\ \E k \in 1..Len(AllElements(elfParser.gdbVariablesInfo)) :
       AllElements(elfParser.gdbVariablesInfo)[k].identifier = <<"s",".","b","1">>

RECURSIVE Unindexed(_)
\* the identifier without the indexes between its brackets
Unindexed(identifier) ==
  IF IndexOf(identifier, <<"[">>) = -1 \/ IndexOf(identifier, <<"]">>) = -1 THEN identifier
  ELSE Substring(identifier, 0, IndexOf(identifier, <<"[">>) + 1) \o <<"]">>
         \o Unindexed(SubstringFrom(identifier, IndexOf(identifier, <<"]">>) + 1))

\* the element is one of an array that the list holds an element of, with the
\* same type and the same type value, and the element has no address
ExpandedFrom(element, list) ==
  /\ element.address = None
  /\ \E k \in 1..Len(list) :
       /\ Unindexed(list[k].identifier) = Unindexed(element.identifier)
       /\ list[k].type # None
       /\ list[k].type = element.type
       /\ list[k].typeValue # None
       /\ list[k].typeValue = element.typeValue

\* the address queries for the elements, one per element and in their order,
\* and the stop command
AddressBatch(elements) ==
  [k \in 1..Len(elements) |->
     GDB_GET_ADDRESS_HEAD \o elements[k].identifier \o GDB_GET_ADDRESS_TAIL]
    \o <<STOP_REQUEST_ADDRESS>>

\* this step is the call of readData that expands the arrays
ExpandStep == ReadStep /\ SizesDone /\ elfParser.expandTableElements

\* C32: every element the expansion appends to a file group has the type and
\* the type value of an element of the same array that the group held before
\* and still holds, and no address; the commands written in the same call are one address query
\* per element of the expanded collection and the stop command; and from then
\* on an element of an array gets its address only in the call that reads the
\* reply to its own address query.
C32_ExpandedEntries ==
  [][/\ ExpandStep =>
          /\ \A f \in 1..Len(elfParser.gdbVariablesInfo) :
               \A j \in (Len(elfParser.gdbVariablesInfo[f].identifiersList) + 1)
                          ..Len(elfParser'.gdbVariablesInfo[f].identifiersList) :
                 ExpandedFrom(elfParser'.gdbVariablesInfo[f].identifiersList[j],
                              SubSeq(elfParser'.gdbVariablesInfo[f].identifiersList, 1,
                                     Len(elfParser.gdbVariablesInfo[f].identifiersList)))
          /\ last'.cmds = AddressBatch(AllElements(elfParser'.gdbVariablesInfo))
     /\ (ReadStep /\ elfParser.currentState = State.GET_ADDRESS /\ elfParser.expandTableElements) =>
          \A f \in 1..Len(elfParser.gdbVariablesInfo) :
            \A j \in 1..Len(elfParser.gdbVariablesInfo[f].identifiersList) :
              (/\ IndexOf(elfParser.gdbVariablesInfo[f].identifiersList[j].identifier, <<"[">>) # -1
               /\ elfParser'.gdbVariablesInfo[f].identifiersList[j].address
                    # elfParser.gdbVariablesInfo[f].identifiersList[j].address)
                => Answered(processes[last'.process])
                     = GDB_GET_ADDRESS_HEAD
                         \o elfParser.gdbVariablesInfo[f].identifiersList[j].identifier
                         \o GDB_GET_ADDRESS_TAIL]_vars

\* the addresses are being asked for a[1].v[1] and the three elements that
\* were appended for it, and the reply for a[0].v[0] was stored while
\* a[0].v[1] has no address yet
C32_Witness ==
  /\ elfParser.currentState = State.GET_ADDRESS
  /\ elfParser.expandTableElements
  /\ Len(AllElements(elfParser.gdbVariablesInfo)) = 4
  /\ \E j, k \in 1..4 :
       /\ AllElements(elfParser.gdbVariablesInfo)[j].identifier = Cell(0, 0)
       /\ AllElements(elfParser.gdbVariablesInfo)[j].address # None
       /\ AllElements(elfParser.gdbVariablesInfo)[j].typeValue = Some(TYPE_VALUE.SIGNED_32)
       /\ AllElements(elfParser.gdbVariablesInfo)[k].identifier = Cell(0, 1)
       /\ AllElements(elfParser.gdbVariablesInfo)[k].address = None
       /\ AllElements(elfParser.gdbVariablesInfo)[k].typeValue = Some(TYPE_VALUE.SIGNED_32)

(***************************************************************************)
(* The identifiers after postProcessArraysInfo (C33), under SpecClasses.   *)
(***************************************************************************)
\* the places of the opening brackets of the identifier, counted from 0
Spans(identifier) == {p \in 0..(Len(identifier) - 1) : CharAt(identifier, p) = "["}

\* the place of the bracket that closes the one at place p
SpanEnd(identifier, p) == p + IndexOf(SubstringFrom(identifier, p), <<"]">>)

\* the index between the brackets of the span at place p
SpanIndex(identifier, p) == ParseInt(Substring(identifier, p + 1, SpanEnd(identifier, p)))

\* the identifiers that have one index of the identifier lowered by one
Lowered(identifier) ==
  {Substring(identifier, 0, p + 1) \o NatToString(SpanIndex(identifier, p).val - 1)
     \o SubstringFrom(identifier, SpanEnd(identifier, p)) :
     p \in {q \in Spans(identifier) : ~SpanIndex(identifier, q).nan /\ SpanIndex(identifier, q).val > 0}}

\* the places of the elements with the identifier
PlacesOf(elements, identifier) == {k \in 1..Len(elements) : elements[k].identifier = identifier}

\* the element at place k is free of markers, and if it is an element of an
\* array it is the only one with its identifier, and so is each element that
\* has one index lowered by one
Combined(elements, k) ==
  /\ IndexOf(elements[k].identifier, <<"[","x">>) = -1
  /\ IndexOf(elements[k].identifier, <<"x","]">>) = -1
  /\ Spans(elements[k].identifier) # {} => Cardinality(PlacesOf(elements, elements[k].identifier)) = 1
  /\ \A lower \in Lowered(elements[k].identifier) : Cardinality(PlacesOf(elements, lower)) = 1

\* the rows and columns of the target file of process p, if it holds an array
\* of structures
Grids(p) ==
  {grid \in (1..MaxRows) \X (1..MaxColumns) : Programs[processes[p].target] = GridTarget(grid[1], grid[2])}

\* C33: the call of readData that expands the arrays ends in GET_ADDRESS, and
\* from then on no identifier has a marker, no two elements of an array have
\* the same identifier, and with an element whose indexes are i1..ik the
\* collection holds the elements of every lower index at every place, hence
\* every combination of 0..i1 x ... x 0..ik; for struct S { int v[c]; } a[r]
\* these are the r * c elements a[i].v[j].
C33_Combinations ==
  /\ [](elfParser.currentState = State.GET_ADDRESS /\ elfParser.expandTableElements
          => /\ \A k \in 1..Len(AllElements(elfParser.gdbVariablesInfo)) :
                  Combined(AllElements(elfParser.gdbVariablesInfo), k)
             /\ \A grid \in Grids(elfParser.gdbProcess) :
                  /\ Len(AllElements(elfParser.gdbVariablesInfo)) = grid[1] * grid[2]
                  /\ \A i \in 0..(grid[1] - 1), j \in 0..(grid[2] - 1) :
                       PlacesOf(AllElements(elfParser.gdbVariablesInfo), Cell(i, j)) # {})
  /\ [][ExpandStep => elfParser'.currentState = State.GET_ADDRESS]_vars

\* the arrays of struct S { int v[2]; } a[2] are expanded: the collection
\* holds a[0].v[0], which was appended for a[1].v[0], itself appended for
\* a[1].v[1]
C33_Witness ==
  /\ elfParser.currentState = State.GET_ADDRESS
  /\ elfParser.expandTableElements
  /\ Grids(elfParser.gdbProcess) = {<<2, 2>>}
  /\ PlacesOf(AllElements(elfParser.gdbVariablesInfo), Cell(0, 0)) # {}
  /\ PlacesOf(AllElements(elfParser.gdbVariablesInfo), Cell(1, 1)) # {}

(***************************************************************************)
(* The declarations buildVarList gives no identifier for (C34) and the     *)
(* declarations with a body (C35), under SpecBlocks.                       *)
(***************************************************************************)
\* buildVarList was applied to the block
Parsed == last.op = "buildVarList"

\* the kinds of the declarations of the block
Kinds == {last.declarations[k].kind : k \in 1..Len(last.declarations)}

\* the identifier of the declaration: the root identifier and the name, and
\* for an array the index of its last element, or 0 without expansion
IdentifierOf(declaration, rootIdentifier, expandTableElements) ==
  rootIdentifier \o declaration.name
    \o (IF declaration.kind = "array"
        THEN <<"[">> \o NatToString(IF expandTableElements THEN declaration.size - 1 ELSE 0) \o <<"]">>
        ELSE <<>>)

\* the declarations before the first one whose body is not closed
Closed(declarations) ==
  SubSeq(declarations, 1,
         Cardinality({k \in 1..Len(declarations) :
                        \A j \in 1..k : declarations[j].kind # "open"}))

\* the identifiers of the declarations of the kinds, in the order of the
\* declarations
IdentifiersOfKinds(declarations, kinds, rootIdentifier, expandTableElements) ==
  [k \in 1..Len(SelectSeq(declarations, LAMBDA d : d.kind \in kinds)) |->
     [identifier |-> IdentifierOf(SelectSeq(declarations, LAMBDA d : d.kind \in kinds)[k],
                                  rootIdentifier, expandTableElements)]]

\* C34: for a block of declarations with closed bodies, buildVarList gives no
\* identifier for an array of more than one dimension and none for a bit
\* field, and gives the identifiers of all the other declarations, in their
\* order and with the root identifier in front.
C34_SkippedDeclarations ==
  (Parsed /\ "open" \notin Kinds) =>
    /\ Val(last.variablesList)
         = IdentifiersOfKinds(last.declarations, {"plain", "pointer", "array", "block"},
                              last.rootIdentifier, last.expandTableElements)
    /\ \A k \in 1..Len(Val(last.variablesList)) :
         /\ StartsWith(Val(last.variablesList)[k].identifier, last.rootIdentifier)
         /\ Val(last.variablesList)[k].identifier
              \notin {last.rootIdentifier \o name : name \in {<<"m">>, <<"b">>, <<"m","[","1","]">>, <<"m","[","0","]">>}}

\* buildVarList gave s.x and s.t[2] for a block with a matrix between x and
\* the array t
C34_Witness ==
  /\ Parsed
  /\ Len(last.declarations) = 3
  /\ last.declarations[1].kind = "plain"
  /\ last.declarations[2].kind = "matrix"
  /\ last.declarations[3].kind = "array"
  /\ Val(last.variablesList) = <<[identifier |-> <<"s",".","x">>], [identifier |-> <<"s",".","t","[","2","]">>]>>

\* the names of the members of the bodies
MemberNames == {<<"a">>, <<"e">>, <<"i">>, <<"w">>, <<"u">>, <<"w","[","1","]">>, <<"w","[","0","]">>}

\* C35: a declaration with a body, nested to any depth, gives one identifier,
\* the name after the brace that closes its first open brace, and none of
\* its members; a declaration whose body is not closed ends the list, which
\* holds the identifiers of the declarations before it.
C35_Bodies ==
  (Parsed /\ Kinds \cap {"block", "open"} # {}) =>
    /\ Val(last.variablesList)
         = IdentifiersOfKinds(Closed(last.declarations), {"plain", "pointer", "array", "block"},
                              last.rootIdentifier, last.expandTableElements)
    /\ Len(Val(last.variablesList)) <= Len(Closed(last.declarations))
    /\ \A k \in 1..Len(Val(last.variablesList)) :
         Val(last.variablesList)[k].identifier
           \notin {last.rootIdentifier \o name : name \in MemberNames \cup {<<"k">>}}

\* buildVarList gave x and s2 for x, a structure s2 with a structure as
\* member, and a union whose body is not closed
C35_Witness ==
  /\ Parsed
  /\ Len(last.declarations) = 3
  /\ last.declarations[1].name = <<"x">>
  /\ last.declarations[2].name = <<"s","2">>
  /\ last.declarations[3].kind = "open"
  /\ Val(last.variablesList) = <<[identifier |-> <<"x">>], [identifier |-> <<"s","2">>]>>

(***************************************************************************)
(* The quit command and the replies read in IDLE (C36), under SpecClasses. *)
(***************************************************************************)
\* the places of the quit command among the commands written to the process
Quits(process) == {c \in 1..Len(process.stdin) : process.stdin[c] = GDB_QUIT}

\* quit is written to a process at most once, and as its last command
QuitIsLast ==
  \A p \in 1..Len(processes) :
    /\ Cardinality(Quits(processes[p])) <= 1
    /\ Quits(processes[p]) \subseteq {Len(processes[p].stdin)}

\* this step is a call of readData that writes quit
QuitStep == ReadStep /\ \E c \in 1..Len(last'.cmds) : last'.cmds[c] = GDB_QUIT

\* the reply read in this step answers the stop command of the address batch
\* or the listing command, and no other reply is outstanding
AfterTerminator ==
  /\ Answered(processes[last'.process]) \in {STOP_REQUEST_ADDRESS, GDB_GET_INFO_VARIABLES}
  /\ Len(processes[last'.process].stdout) = 1

\* this step leaves the state IDLE and the collections as they are and writes
\* no command
Ignored ==
  /\ elfParser'.currentState = State.IDLE
  /\ elfParser'.gdbVariablesInfo = elfParser.gdbVariablesInfo
  /\ elfParser'.newGdbVariablesInfo = elfParser.newGdbVariablesInfo
  /\ last'.cmds = <<>>
  /\ processes'[last'.process].stdin = processes[last'.process].stdin

\* C36 as stated: quit is written to a process at most once and is the last
\* command written to it; the call of readData that writes it reads the reply
\* to the stop command of the address batch, or to the listing command; and a
\* call of readData in the state IDLE changes neither the state nor the
\* collections and writes no command.
C36_QuitAfterTerminator ==
  /\ []QuitIsLast
  /\ [][QuitStep => AfterTerminator]_vars
  /\ [][(ReadStep /\ elfParser.currentState = State.IDLE) => Ignored]_vars

(***************************************************************************)
(* The result of a session on an instance that was used before (C37),      *)
(* under Spec.                                                             *)
(***************************************************************************)
\* a command was written to process p after the listing command: the reply
\* to the listing command was read
ListingParsed(p) ==
  \E c \in 1..(Len(processes[p].stdin) - 1) : processes[p].stdin[c] = GDB_GET_INFO_VARIABLES

\* the call that spawned process p was made when the result of every call
\* before it had been delivered
Reused(p) == \A c \in 1..Len(calls) : calls[c].gdbProcess = p => calls[c].fired = c - 1

\* C37 as stated: the result delivered at the close of a process whose
\* listing was not read is empty, also when the instance has run a session
\* to its end before.
C37_OwnEntriesOnly ==
  \A k \in 1..Len(results) :
    (results[k].process # 0 /\ Reused(results[k].process) /\ ~ListingParsed(results[k].process))
      => results[k].variablesInfo = <<>>


(***************************************************************************)
(* C38: the chunks of the output of gdb.  The output stream of a session   *)
(* is received; OneChunk is what readData leaves when the whole stream     *)
(* comes as one chunk to the instance that readElf left.                   *)
(***************************************************************************)
OneChunk(c) ==
  readData(readElf(NewElfParser, TRUE, c, calls[c].expandTableElements,
                   IF calls[c].withProgress THEN c ELSE 0, calls[c].gdbProcess).this,
           received)

\* the session of call c stands where the stream in one chunk leaves it: the
\* same state, the same collection, the same commands written
SameAsOneChunk(c, one) ==
  /\ elfParser.currentState = one.this.currentState
  /\ elfParser.gdbVariablesInfo = one.this.gdbVariablesInfo
  /\ one.this.dataBuffer = elfParser.dataBuffer
  /\ processes[calls[c].gdbProcess].stdin = one.cmds
  /\ \A k \in 1..Len(results) :
       results[k].process = calls[c].gdbProcess
         => results[k].variablesInfo = sendVariablesInfoToClient(one.this)

\* C38: for the output stream received so far, whatever the chunks it came
\* in, the commands written to the process, the state, the collection and
\* the list delivered at the close are those of the same stream read as one
\* chunk.
C38_ChunkingIndependence == \A c \in Accepted : SameAsOneChunk(c, OneChunk(c))

\* C38, its case: a session with variables whose last chunk held two replies,
\* the last two addresses, and made readData write quit
C38_Witness ==
  /\ Accepted = {1}
  /\ last.op = "readData"
  /\ Len(last.steps) = 2
  /\ last.steps[1].from = State.GET_ADDRESS
  /\ last.cmds = <<GDB_QUIT>>
  /\ elfParser.currentState = State.IDLE
  /\ Len(sendVariablesInfoToClient(elfParser)) > 2

(***************************************************************************)
(* C39: the end of a session with a gdb that answers every command.        *)
(***************************************************************************)
\* the call was accepted and its session is over: quit is the last command
\* written to its process, the state is IDLE, the process has closed and the
\* result callback of the call was invoked for it
SessionOver ==
  /\ 1 \in Accepted
  /\ elfParser.currentState = State.IDLE
  /\ processes[1].state = "closed"
  /\ \E k \in 1..Len(results) : Completed(1, k) /\ results[k].callback = 1

\* C39: when gdb answers every command with one reply, in order, an accepted
\* session eventually writes quit and reaches IDLE, and when the process has
\* closed the result callback is invoked.
C39_Liveness == (1 \in Accepted) ~> SessionOver

\* C39, its case: the session on a program with base classes is over, with
\* the members of the variable delivered
C39_Witness ==
  /\ SessionOver
  /\ processes[1].target > Len(Targets)
  /\ \E k \in 1..Len(results) : Len(results[k].variablesInfo) > 1

====
